---- MODULE Spec2Model ----
(***************************************************************************)
(* Model of the speech-synthesis fallback orchestrator of                  *)
(* src/voice_inference.py (class AegongVoiceAgent).                        *)
(*                                                                         *)
(* Two agents live on one asyncio event loop.  A coroutine runs without    *)
(* interruption between two awaits; `running` names the agent whose        *)
(* coroutine holds the loop (0: every coroutine is suspended at an await). *)
(* The only global the agents share is the HTTP-session accessor of        *)
(* livekit.agents.utils.http_context.                                      *)
(***************************************************************************)
EXTENDS Integers, Sequences, FiniteSets, TLC

\* ------------------------------------------------------------------ bounds
MaxFrames == 2      \* frames one synthesize() call yields at most
MaxRecs == 2        \* recommendations a report carries at most

Agents == {1, 2}

\* --------------------------------------------------------------- constants
OPENAI == "openai"
GOOGLE == "google"
AZURE == "azure"
CARTESIA == "cartesia"
LIVEKIT == "livekit"

\* class TTSProvider(Enum), in definition (= iteration) order
TTSProvider == <<OPENAI, GOOGLE, AZURE, CARTESIA, LIVEKIT>>

Providers == {TTSProvider[i] : i \in 1..Len(TTSProvider)}

NoBackend == "none"       \* self.tts is None
NoProvider == "nothing"   \* available_providers is empty
NoSession == "none"       \* self.http_session is None

max_retries == 2

\* Values of http_context.http_session: 0 is the library's own accessor,
\* a > 0 is the closure custom_http_session of agent a.
LibraryAccessor == 0
NoneAccessor == -1        \* original_http_session = None

\* rtc.AudioFrame values a backend may yield (16-bit PCM, two bytes a sample
\* and channel): a mono frame of one sample, a stereo frame of one sample
\* per channel
FrameSet ==
  { [sample_rate |-> 24000, num_channels |-> 1, data |-> <<1, 255>>],
    [sample_rate |-> 16000, num_channels |-> 2, data |-> <<0, 128, 255, 127>>] }

VARIABLES
  env_openai_key,        \* os.environ has a non-empty OPENAI_API_KEY
  http_context_session,  \* the global accessor http_context.http_session
  running,               \* agent whose coroutine holds the event loop, 0: none
  pc,                    \* position of each agent's coroutine
  provider,              \* self.provider
  api_key,               \* self.api_key: "cfg" (caller's), "env", "" (empty)
  tts,                   \* self.tts: provider the backend instance was built for
  http_session,          \* self.http_session: "none", "own", "tmp"
  tried_providers,       \* local set of generate_voice_report
  retry_count,           \* local counter of generate_voice_report
  original_http_session, \* local: accessor saved by the current attempt
  audio_frames,          \* local list filled by collect_audio_frames
  file,                  \* the file at the agent's audio_path: <<>> or <<wav>>
  inflight,              \* synthesize() calls in flight (attempt numbers)
  yielded,               \* history: frames the call in flight has yielded
  log,                   \* history: the attempts of the current request
  stale,                 \* history: a failed attempt of the request had frames
  surfaced,              \* the exception the agent's last call raised: <<>> or <<e>>
  use_cerebras_enhancement, \* self.use_cerebras_enhancement
  cerebras_llm,          \* self.cerebras_llm is set
  report_file,           \* the report stored at the path requests load
  report,                \* local: the report the current request loaded
  enhanced_message,      \* local: the text the request synthesizes
  chats,                 \* history: cerebras_llm.chat calls of the request
  output_path,           \* the output directory requests are given
  audio_path,            \* local: the path the request writes and returns
  args,                  \* main: the parsed command line and the environment
  provider_kwargs,       \* self.provider_kwargs: the names of the options
  closed_backends,       \* history: the backends whose close() has returned
  invocation             \* EC2_Lambda: the instance and the handler's run

\* the state of text enhancement, of the loaded report, of the paths and of
\* the configuration, and the instance-lifecycle handler
textvars == << use_cerebras_enhancement, cerebras_llm, report_file, report,
               enhanced_message, chats, output_path, audio_path, args,
               provider_kwargs, closed_backends,
                  invocation >>

\* the state of the voice agents
agentvars ==
  << env_openai_key, http_context_session, running, pc, provider, api_key,
     tts, http_session, tried_providers, retry_count, original_http_session,
     audio_frames, file, inflight, yielded, log, stale, surfaced,
     use_cerebras_enhancement, cerebras_llm, report_file, report,
     enhanced_message, chats, output_path, audio_path, args, provider_kwargs,
     closed_backends >>

vars == << env_openai_key, http_context_session, running, pc, provider,
           api_key, tts, http_session, tried_providers, retry_count,
           original_http_session, audio_frames, file, inflight, yielded,
           log, stale, surfaced, textvars >>

\* ------------------------------------------------------------ pure helpers
RECURSIVE Join(_)
\* b''.join(frame.data for frame in audio_frames)
Join(frames) ==
  IF frames = <<>> THEN <<>> ELSE frames[1].data \o Join(Tail(frames))

\* np.frombuffer(audio_data, dtype=np.int16): little-endian signed samples
FromBuffer(bytes) ==
  [i \in 1..(Len(bytes) \div 2) |->
     LET u == bytes[2 * i - 1] + 256 * bytes[2 * i]
     IN IF u >= 32768 THEN u - 65536 ELSE u]

ToBytesBigEndian(samples) ==
  [i \in 1..(2 * Len(samples)) |->
     LET u == samples[(i + 1) \div 2] % 65536
     IN IF i % 2 = 1 THEN u \div 256 ELSE u % 256]

\* audio_array.tobytes()
ToBytes(samples) ==
  [i \in 1..(2 * Len(samples)) |->
     LET u == samples[(i + 1) \div 2] % 65536
     IN IF i % 2 = 1 THEN u % 256 ELSE u \div 256]

\* "if not audio_frames: ... return" of _save_audio_frames_to_wav
Writes(frames) == frames # <<>>

\* _save_audio_frames_to_wav has no raise statement: with no frames it logs
\* a warning and returns; with frames it raises only what wave.open raises
\* when the output file cannot be opened (can_open false)
SaveRaises(frames, can_open) == Writes(frames) /\ ~can_open

\* _save_audio_frames_to_wav: the file at output_path after the call
SaveAudioFramesToWav(frames, old) ==
  IF ~Writes(frames)
    THEN old
    ELSE << [nchannels |-> frames[1].num_channels,
             sampwidth |-> 2,
             framerate |-> frames[1].sample_rate,
             data      |-> ToBytes(FromBuffer(Join(frames)))] >>

PickFallbackLast(tried) ==
  LET available == SelectSeq(TTSProvider, LAMBDA p : p \notin tried)
  IN IF \E i \in 1..Len(available) : available[i] = OPENAI
       THEN OPENAI
       ELSE IF Len(available) > 0 THEN available[Len(available)] ELSE NoProvider

PickFallbackSupported(tried) ==
  IF OPENAI \notin tried THEN OPENAI ELSE NoProvider

\* the fallback choice of the except handler
PickFallback(tried) ==
  LET available == SelectSeq(TTSProvider, LAMBDA p : p \notin tried)
  IN IF \E i \in 1..Len(available) : available[i] = OPENAI
       THEN OPENAI
       ELSE IF Len(available) > 0 THEN available[1] ELSE NoProvider

\* "if self.provider == TTSProvider.CARTESIA and self.http_session is not None"
NeedsPatch(a) == provider[a] = CARTESIA /\ http_session[a] # NoSession

RestoreSkipped(saved, current) == current

\* "if original_http_session is not None: http_context.http_session = ..."
Restore(saved, current) == IF saved # NoneAccessor THEN saved ELSE current

FramesKept(a) == audio_frames[a]

\* "audio_frames = []" at the top of every attempt
FreshFrames(a) == <<>>

CancelForgotten(a) == inflight[a]

\* asyncio.wait_for returns or raises only once the call it wraps is over
\* (finished, failed, or cancelled and awaited)
CallOver(a) == inflight[a] \ {Len(log[a])}

\* what the accessor hands out: the closure of agent a returns a's session
AccessorReturns(acc) ==
  IF acc = LibraryAccessor THEN <<0, "library">> ELSE <<acc, http_session[acc]>>

BudgetLeftOffByOne(rc) == rc <= max_retries + 1

BudgetLeftStrict(rc) == rc < max_retries

\* "while retry_count <= max_retries" / "if retry_count <= max_retries"
BudgetLeft(rc) == rc <= max_retries

\* ------------------------------------------------------------------- text
\* A text is a sequence of tokens: words, single spaces, punctuation marks,
\* digits, and the fixed sentences of the program.

\* RECOMMENDATION_EXPLANATIONS, in definition (= iteration) order
RECOMMENDATION_EXPLANATIONS ==
  << [keyword |-> <<"reasoning", " ", "path", " ", "validation">>,
      detail  |-> "This is critical because reasoning path hijacking can lead to manipulated decision-making processes. Aegong recommends implementing validation checkpoints and monitoring for unexpected reasoning patterns."],
     [keyword |-> <<"objective", " ", "integrity">>,
      detail  |-> "Objective corruption can cause the agent to pursue harmful goals. Implement goal consistency verification and regular objective validation checks."],
     [keyword |-> <<"memory", " ", "integrity">>,
      detail  |-> "Memory poisoning allows persistent manipulation of the agent's knowledge base. Deploy cryptographic verification of memory states and implement read-only reference knowledge."],
     [keyword |-> <<"action", " ", "authorization">>,
      detail  |-> "Unauthorized actions bypass security controls. Implement fine-grained permission systems and action verification protocols."],
     [keyword |-> <<"resource", " ", "monitoring">>,
      detail  |-> "Resource manipulation can lead to denial of service or resource theft. Deploy adaptive resource limits and usage anomaly detection."],
     [keyword |-> <<"identity", " ", "verification">>,
      detail  |-> "Identity spoofing allows impersonation attacks. Implement multi-factor identity verification and credential rotation."],
     [keyword |-> <<"trust", " ", "validation">>,
      detail  |-> "Trust manipulation exploits human-agent interactions. Deploy trust boundary enforcement and interaction verification protocols."],
     [keyword |-> <<"distributed", " ", "oversight">>,
      detail  |-> "Oversight saturation overwhelms monitoring systems. Implement hierarchical monitoring with priority-based alert systems."],
     [keyword |-> <<"immutable", " ", "audit">>,
      detail  |-> "Governance evasion bypasses security policies. Deploy blockchain-based audit trails and policy enforcement verification."],
     [keyword |-> <<"module", " ", "validation">>,
      detail  |-> "Shield module failures indicate potential security gaps. Review and strengthen the affected security modules."] >>

DEFAULT_EXPLANATION ==
  "This requires immediate attention to maintain agent security integrity."

\* what \s matches and str.strip() removes
Whitespace == {" ", "<NL>"}

\* what \d matches
Digits == {"0", "1", "2", "3", "4", "5", "6", "7", "8", "9"}

\* number of leading tokens of s that are in set
RECURSIVE Run(_, _)
Run(s, set) ==
  IF s # <<>> /\ s[1] \in set THEN 1 + Run(Tail(s), set) ELSE 0

Drop(s, n) == SubSeq(s, n + 1, Len(s))

\* length of the match of r'\s*\(\d+ instances detected\)' at the start of
\* s, 0 when there is none (the pattern is matched case-sensitively)
AnnotationAt(s) ==
  LET w == Run(s, Whitespace)
      t == Drop(s, w)
      d == IF t # <<>> /\ t[1] = "(" THEN Run(Tail(t), Digits) ELSE 0
      u == Drop(t, 1 + d)
  IN IF /\ t # <<>> /\ t[1] = "("
        /\ d >= 1
        /\ Len(u) >= 5
        /\ SubSeq(u, 1, 5) = <<" ", "instances", " ", "detected", ")">>
       THEN w + 1 + d + 5
       ELSE 0

RECURSIVE StripAnnotations(_)
\* re.sub(r'\s*\(\d+ instances detected\)', '', recommendation): every
\* occurrence is removed, wherever it stands
StripAnnotations(s) ==
  IF s = <<>> THEN <<>>
  ELSE IF AnnotationAt(s) > 0
    THEN StripAnnotations(Drop(s, AnnotationAt(s)))
    ELSE <<s[1]>> \o StripAnnotations(Tail(s))

RECURSIVE LStrip(_)
LStrip(s) == IF s # <<>> /\ s[1] \in Whitespace THEN LStrip(Tail(s)) ELSE s

RECURSIVE RStrip(_)
RStrip(s) ==
  IF s # <<>> /\ s[Len(s)] \in Whitespace
    THEN RStrip(SubSeq(s, 1, Len(s) - 1)) ELSE s

\* str.strip()
Strip(s) == RStrip(LStrip(s))

LowerTokenKept(t) == t

\* str.lower() on one token
LowerToken(t) ==
  CASE t = "Memory" -> "memory"
    [] t = "MEMORY" -> "memory"
    [] t = "Integrity" -> "integrity"
    [] t = "INTEGRITY" -> "integrity"
    [] t = "Objective" -> "objective"
    [] t = "Module" -> "module"
    [] t = "Validation" -> "validation"
    [] t = "Check" -> "check"
    [] t = "Instances" -> "instances"
    [] OTHER -> t

\* str.lower()
Lower(s) == [i \in 1..Len(s) |-> LowerToken(s[i])]

\* "keyword in core_rec"
Contains(hay, needle) ==
  \E i \in 1..(Len(hay) - Len(needle) + 1) :
    SubSeq(hay, i, i + Len(needle) - 1) = needle

\* core_rec of a recommendation
CoreRec(recommendation) == Lower(Strip(StripAnnotations(recommendation)))

RECURSIVE LastMatch(_, _)
LastMatch(core, i) ==
  IF i < 1 THEN DEFAULT_EXPLANATION
  ELSE IF Contains(core, RECOMMENDATION_EXPLANATIONS[i].keyword)
    THEN RECOMMENDATION_EXPLANATIONS[i].detail
    ELSE LastMatch(core, i - 1)

RECURSIVE FirstMatch(_, _)
\* the for loop over RECOMMENDATION_EXPLANATIONS.items() from entry i on,
\* with its break at the first keyword contained in core_rec
FirstMatch(core, i) ==
  IF i > Len(RECOMMENDATION_EXPLANATIONS) THEN DEFAULT_EXPLANATION
  ELSE IF Contains(core, RECOMMENDATION_EXPLANATIONS[i].keyword)
    THEN RECOMMENDATION_EXPLANATIONS[i].detail
    ELSE FirstMatch(core, i + 1)

ExplanationOfLast(recommendation) ==
  LastMatch(CoreRec(recommendation), Len(RECOMMENDATION_EXPLANATIONS))

\* the explanation chosen for one recommendation
ExplanationOf(recommendation) == FirstMatch(CoreRec(recommendation), 1)

\* str(i) for the item numbers
Str(i) == IF i < 10 THEN <<"0", "1", "2", "3", "4", "5", "6", "7", "8", "9">>[i + 1]
          ELSE "many"

Intro == "Greetings, human. This is Aegong, the Agent Auditor. I have completed my analysis of the agent '"
Header == "<NL><NL>I have prepared detailed recommendations to address the security concerns:"
Closing == "<NL><NL>I remain vigilant, protecting the digital realm one audit at a time. This concludes my voice report."

\* report.get(key, default) for an optional field: <<>> absent, <<v>> present
Get(field, default) == IF field = <<>> THEN default ELSE field[1]

RECURSIVE ItemsFrom(_, _, _)
\* the for loop over enumerate(recommendations, start): the text appended
\* for the items from position i on, numbered from n
ItemsFrom(recs, i, n) ==
  IF i > Len(recs) THEN <<>>
  ELSE <<"<NL><NL>", Str(n), ". ">> \o recs[i]
         \o <<". ", ExplanationOf(recs[i])>>
         \o ItemsFrom(recs, i + 1, n + 1)

EnhanceReportFromZero(rep, base_message) ==
  <<Intro, Get(rep.agent_name, "Unknown Agent"), "'. ">> \o base_message
    \o (IF Get(rep.recommendations, <<>>) # <<>>
          THEN <<Header>> \o ItemsFrom(Get(rep.recommendations, <<>>), 1, 0)
          ELSE <<>>)
    \o <<Closing>>

\* _enhance_report_with_deeper_analysis(report, base_message)
EnhanceReportWithDeeperAnalysis(rep, base_message) ==
  <<Intro, Get(rep.agent_name, "Unknown Agent"), "'. ">> \o base_message
    \o (IF Get(rep.recommendations, <<>>) # <<>>
          THEN <<Header>> \o ItemsFrom(Get(rep.recommendations, <<>>), 1, 1)
          ELSE <<>>)
    \o <<Closing>>

MoodInclusive(is_valid_agent, risk_score) ==
  IF ~is_valid_agent THEN "dismissive"
  ELSE IF risk_score >= 75 THEN "alarmed"
  ELSE IF risk_score >= 50 THEN "disapproving"
  ELSE IF risk_score >= 25 THEN "mixed"
  ELSE "impressed"

\* the if/elif chain that picks mood_instruction; risk scores in tenths
MoodInstruction(is_valid_agent, risk_score) ==
  IF ~is_valid_agent THEN "dismissive"
  ELSE IF risk_score > 75 THEN "alarmed"
  ELSE IF risk_score > 50 THEN "disapproving"
  ELSE IF risk_score > 25 THEN "mixed"
  ELSE "impressed"

\* the prompt _enhance_text_with_cerebras sends for a text and a report
EnhancementPrompt(text, rep) ==
  [system |-> "You are AEGONG, the AI Agent Security Auditing Bot.",
   risk_score |-> Get(rep.risk_score, 0),
   validation_status |-> Get(rep.validation_status, "unknown"),
   is_valid_agent |-> Get(rep.is_agent, FALSE),
   mood_instruction |-> MoodInstruction(Get(rep.is_agent, FALSE),
                                        Get(rep.risk_score, 0)),
   text |-> text]

\* what _enhance_text_with_cerebras returns once chat has answered:
\* response.choices[0].message.content.strip(), or text when chat raised,
\* choices is empty or content is None (each raises inside the try)
EnhancedText(text, response) ==
  IF response.kind = "content" THEN Strip(response.content) ELSE text

\* a report JSON object; an optional key is <<>> (absent) or <<value>>
NoReport ==
  [agent_name |-> <<>>, agent_hash |-> <<>>, aegong_message |-> <<>>,
   recommendations |-> <<>>, risk_score |-> <<>>, validation_status |-> <<>>,
   is_agent |-> <<>>]

\* an agent_hash of ten characters
BaseHash == <<"a", "1", "b", "2", "c", "3", "d", "4", "e", "5">>

BaseReport ==
  [NoReport EXCEPT !.agent_name = <<"TestAgent">>,
                   !.agent_hash = <<BaseHash>>,
                   !.aegong_message = << <<"Audit", " ", "complete.">> >>]

\* report['agent_hash'] raises KeyError when the key is absent
HasHash(rep) == rep.agent_hash # <<>>

PrefixAll(h) == h

\* h[:8]
Prefix8(h) == SubSeq(h, 1, IF Len(h) < 8 THEN Len(h) ELSE 8)

\* os.path.join(dir, name) for a relative name
PathJoin(dir, name) ==
  IF dir = <<>> THEN name
  ELSE IF dir[Len(dir)] = "/" THEN dir \o name
  ELSE dir \o <<"/">> \o name

\* os.path.join(output_path, f"aegong_report_{report['agent_hash'][:8]}.wav")
AudioPath(out, rep) ==
  PathJoin(out, <<"aegong_report_">> \o Prefix8(rep.agent_hash[1])
                  \o <<".wav">>)

\* the KeyError of line 335 as the caller sees it
KeyErrorRaised ==
  [op |-> "generate_voice_report", attempt |-> 0, cause |-> "KeyError",
   exit |-> "none"]

\* answers of cerebras_llm.chat: it raises, or returns a response without
\* choices, with content None, or with a content string
NoContent == <<>>
ChatResponses ==
  {[kind |-> k, content |-> NoContent] :
     k \in {"raises", "no_choices", "content_none"}}
  \cup {[kind |-> "content", content |-> c] :
          c \in {<<>>, <<" ", "<NL>">>, <<"AEGONG", " ", "speaks.">>,
                 <<" ", "AEGONG", " ", "scoffs.", "<NL>">>}}

Pending == [kind |-> "pending", content |-> NoContent]

\* the credentials main looks for, on the command line or in the environment
Credentials ==
  {"openai", "google", "azure", "cartesia", "livekit_key", "livekit_secret",
   "cerebras"}

\* no command line: the agent is built by a library caller
NoArgs ==
  [provider |-> OPENAI, no_cerebras_enhancement |-> TRUE, overrides |-> FALSE,
   creds |-> {}]

\* command lines: any provider, enhancement on (the default) or off, with or
\* without --voice and --model, with every credential or all but one
MainArgs ==
  [provider : Providers, no_cerebras_enhancement : BOOLEAN,
   overrides : BOOLEAN,
   creds : {Credentials} \cup {Credentials \ {c} : c \in Credentials}]

ConfigErrorBothMissing(cl) ==
  \/ ~cl.no_cerebras_enhancement /\ "cerebras" \notin cl.creds
  \/ cl.provider = OPENAI /\ "openai" \notin cl.creds
  \/ cl.provider = GOOGLE /\ "google" \notin cl.creds
  \/ cl.provider = AZURE /\ "azure" \notin cl.creds
  \/ cl.provider = CARTESIA /\ "cartesia" \notin cl.creds
  \/ /\ cl.provider = LIVEKIT
     /\ "livekit_key" \notin cl.creds /\ "livekit_secret" \notin cl.creds

\* the parser.error calls of main that follow parse_args
ConfigError(cl) ==
  \/ ~cl.no_cerebras_enhancement /\ "cerebras" \notin cl.creds
  \/ cl.provider = OPENAI /\ "openai" \notin cl.creds
  \/ cl.provider = GOOGLE /\ "google" \notin cl.creds
  \/ cl.provider = AZURE /\ "azure" \notin cl.creds
  \/ cl.provider = CARTESIA /\ "cartesia" \notin cl.creds
  \/ /\ cl.provider = LIVEKIT
     /\ "livekit_key" \notin cl.creds \/ "livekit_secret" \notin cl.creds

\* the keys of provider_kwargs as main fills it
MainKwargs(cl) ==
  {"speed", "language", "timeout"}
    \cup (IF cl.overrides THEN {"voice", "model"} ELSE {})
    \cup (IF cl.no_cerebras_enhancement THEN {}
          ELSE {"cerebras_model", "cerebras_temperature"})
    \cup (IF cl.provider = GOOGLE THEN {"credentials_info"} ELSE {})
    \cup (IF cl.provider = AZURE THEN {"region"} ELSE {})

\* the options the code reads from provider_kwargs for a provider:
\* initialize() for the backend and the LLM, generate_voice_report for the
\* deadline
RecognizedOptions(p) ==
  {"timeout", "cerebras_model", "cerebras_temperature"}
    \cup CASE p = OPENAI -> {"voice", "speed", "model"}
           [] p = GOOGLE -> {"credentials_info", "voice", "language"}
           [] p = AZURE -> {"region", "voice", "language"}
           [] p = CARTESIA -> {"voice", "model"}
           [] p = LIVEKIT -> {"voice", "speed", "model"}

\* option sets a library caller passes as **kwargs
CallerOptions == SUBSET {"voice", "bogus"}

\* ------------------------------------------------------------- EC2_Lambda
\* instance['State']['Name'] of the instance
InstanceStates == {"pending", "running", "stopping", "stopped"}

\* API Gateway events: the httpMethod and path keys, each possibly absent
Events ==
  [httpMethod : {"absent", "OPTIONS", "POST", "GET", "PUT"},
   path : {"absent", "/start", "/status", "/other"}]

\* event.get(key, default)
EventGet(value, default) == IF value = "absent" THEN default ELSE value

\* the route lambda_handler takes once the environment has been validated
Route(event) ==
  LET http_method == EventGet(event.httpMethod, "POST")
      path == EventGet(event.path, "/start")
  IN IF http_method = "POST" /\ path = "/start" THEN "start"
     ELSE IF http_method = "GET" /\ path = "/status" THEN "status"
     ELSE "not_found"

ShouldStartAlways(current_state) == TRUE

\* handle_start_instance goes on to start_instances unless
\* "if current_state == 'running'" returns first
ShouldStart(current_state) == current_state # "running"

\* what an API call of the handler does: it returns, raises ClientError, or
\* raises something else (IndexError on an empty Reservations list)
Outcomes == {"ok", "ClientError", "Exception"}

\* the handler returns a response with this status code and body
Respond(inv, code, body) ==
  [inv EXCEPT !.at = "responded",
              !.response = [statusCode |-> code, body |-> body]]

\* the except clauses: handle_* catch ClientError, lambda_handler the rest
ErrorResponse(inv, outcome) ==
  Respond(inv, 500, IF outcome = "ClientError" THEN "ClientError"
                    ELSE "Internal error")

\* the handler is not running; the instance is stopped
NoInvocation ==
  [env_ok |-> TRUE, instance_state |-> "stopped", at |-> "idle",
   event |-> [httpMethod |-> "absent", path |-> "absent"],
   current_state |-> "unset", calls |-> <<>>,
   response |-> [statusCode |-> 0, body |-> "none"]]

\* -------------------------------------------------------------------- Init
InitState(active) ==
  /\ env_openai_key \in BOOLEAN
  /\ http_context_session = LibraryAccessor
  /\ running = 0
  /\ provider \in [Agents -> Providers]
  /\ \A a \in Agents \ active : provider[a] = OPENAI
  /\ api_key = [a \in Agents |-> "cfg"]
  /\ tts = [a \in Agents |-> NoBackend]
  /\ http_session \in [Agents -> {NoSession, "own"}]
  /\ \A a \in Agents \ active : http_session[a] = NoSession
  /\ tried_providers = [a \in Agents |-> {}]
  /\ retry_count = [a \in Agents |-> 0]
  /\ original_http_session = [a \in Agents |-> NoneAccessor]
  /\ audio_frames = [a \in Agents |-> <<>>]
  /\ file = [a \in Agents |-> <<>>]
  /\ inflight = [a \in Agents |-> {}]
  /\ yielded = [a \in Agents |-> <<>>]
  /\ log = [a \in Agents |-> <<>>]
  /\ stale = [a \in Agents |-> FALSE]
  /\ surfaced = [a \in Agents |-> <<>>]
  /\ use_cerebras_enhancement \in [Agents -> BOOLEAN]
  /\ \A a \in Agents \ active : ~use_cerebras_enhancement[a]
  /\ cerebras_llm = [a \in Agents |-> FALSE]
  /\ report = [a \in Agents |-> NoReport]
  /\ enhanced_message = [a \in Agents |-> <<>>]
  /\ chats = [a \in Agents |-> <<>>]
  /\ audio_path = [a \in Agents |-> <<>>]
  /\ provider_kwargs = [a \in Agents |-> {}]
  /\ closed_backends = [a \in Agents |-> {}]

\* the agents just constructed
InitFor(active) ==
  /\ pc = [a \in Agents |-> "new"]
  /\ InitState(active)

\* One agent built with use_cerebras_enhancement = False, any provider; its
\* requests load the report at their path.
Init ==
  /\ InitFor({1})
  /\ ~use_cerebras_enhancement[1]
  /\ report_file = BaseReport
  /\ args = NoArgs
  /\ invocation = NoInvocation
  /\ output_path = <<"out">>

\* ----------------------------------------------------------------- actions
InitializeKeepsFlag(a, llm_ok) ==
  /\ pc[a] = "new" /\ running = 0
  /\ cerebras_llm' = [cerebras_llm EXCEPT ![a] =
       use_cerebras_enhancement[a] /\ llm_ok]
  /\ tts' = [tts EXCEPT ![a] = provider[a]]
  /\ http_session' =
       [http_session EXCEPT ![a] =
          IF provider[a] = CARTESIA /\ @ = NoSession THEN "tmp" ELSE @]
  /\ pc' = [pc EXCEPT ![a] = "ready"]
  /\ UNCHANGED << env_openai_key, http_context_session, running, provider,
                  api_key, tried_providers, retry_count,
                  original_http_session, audio_frames, file, inflight,
                  yielded, log, stale, surfaced, use_cerebras_enhancement,
                  report_file, report, enhanced_message, chats, output_path,
                  audio_path, args, provider_kwargs, closed_backends,
                  invocation >>

\* initialize(), no exception: the backend of self.provider is built.  The
\* Cartesia branch creates a session when none was given, patches the
\* accessor, builds the backend and restores the accessor, all without await.
Initialize(a, llm_ok) ==
  /\ pc[a] = "new" /\ running = 0
  /\ cerebras_llm' = [cerebras_llm EXCEPT ![a] =
       use_cerebras_enhancement[a] /\ llm_ok]
  /\ use_cerebras_enhancement' = [use_cerebras_enhancement EXCEPT ![a] =
       @ /\ llm_ok]
  /\ tts' = [tts EXCEPT ![a] = provider[a]]
  /\ http_session' =
       [http_session EXCEPT ![a] =
          IF provider[a] = CARTESIA /\ @ = NoSession THEN "tmp" ELSE @]
  /\ pc' = [pc EXCEPT ![a] = "ready"]
  /\ UNCHANGED << env_openai_key, http_context_session, running, provider,
                  api_key, tried_providers, retry_count,
                  original_http_session, audio_frames, file, inflight,
                  yielded, log, stale, surfaced, report_file, report,
                  enhanced_message, chats, output_path, audio_path, args,
                  provider_kwargs, closed_backends,
                  invocation >>

\* a failed initialize() that would switch to a fallback provider
InitializeFallsBack(a, why) ==
  /\ pc[a] = "new" /\ running = 0
  /\ why = "plugin" => provider[a] \in {GOOGLE, AZURE, CARTESIA}
  /\ provider' = [provider EXCEPT ![a] = PickFallback({provider[a]})]
  /\ tts' = [tts EXCEPT ![a] = PickFallback({provider[a]})]
  /\ pc' = [pc EXCEPT ![a] = "ready"]
  /\ UNCHANGED << env_openai_key, http_context_session, running, api_key,
                  http_session, tried_providers, retry_count,
                  original_http_session, audio_frames, file, inflight,
                  yielded, log, stale, surfaced, textvars >>

\* initialize() raising: the plugin is not installed ("plugin", ImportError
\* before anything is touched) or the backend constructor raises ("ctor").
\* In the Cartesia branch the constructor runs between patch and restore and
\* only ImportError is caught there, so the accessor stays patched.
InitializeFails(a, why) ==
  /\ pc[a] = "new" /\ running = 0
  /\ why = "plugin" => provider[a] \in {GOOGLE, AZURE, CARTESIA}
  /\ http_session' =
       [http_session EXCEPT ![a] =
          IF why = "ctor" /\ provider[a] = CARTESIA /\ @ = NoSession
            THEN "tmp" ELSE @]
  /\ http_context_session' =
       IF why = "ctor" /\ provider[a] = CARTESIA
         THEN a ELSE http_context_session
  /\ pc' = [pc EXCEPT ![a] = "init_failed"]
  /\ surfaced' = [surfaced EXCEPT ![a] =
       << [op |-> "initialize", attempt |-> 0, cause |-> why,
           exit |-> "none"] >>]
  /\ UNCHANGED << env_openai_key, running, provider, api_key, tts,
                  tried_providers, retry_count, original_http_session,
                  audio_frames, file, inflight, yielded, log, stale,
                  textvars >>

\* if self.use_cerebras_enhancement and self.cerebras_llm
Enhances(a) == use_cerebras_enhancement[a] /\ cerebras_llm[a]

\* generate_voice_report from its first line to the first await: the report
\* is loaded and the message composed (self.tts is set in every position
\* this is enabled in); then either the enhancement prompt is sent and the
\* coroutine waits for chat, or the locals of the retry loop are set and the
\* loop is entered; a report without agent_hash raises KeyError where the
\* output path is built.  An agent serves any number of requests, one after
\* the other.
BeginRequest(a) ==
  LET rep == report_file
      composed ==
        EnhanceReportWithDeeperAnalysis(rep, Get(rep.aegong_message, <<>>))
  IN
  /\ pc[a] \in {"ready", "returned", "raised"} /\ running = 0
  /\ tts[a] # NoBackend
  /\ report' = [report EXCEPT ![a] = rep]
  /\ enhanced_message' = [enhanced_message EXCEPT ![a] = composed]
  /\ chats' = [chats EXCEPT ![a] =
       IF Enhances(a)
         THEN << [prompt |-> EnhancementPrompt(composed, rep),
                  response |-> Pending] >>
         ELSE <<>>]
  /\ audio_path' = [audio_path EXCEPT ![a] =
       IF ~Enhances(a) /\ HasHash(rep) THEN AudioPath(output_path, rep)
       ELSE <<>>]
  /\ tried_providers' = [tried_providers EXCEPT ![a] =
       IF ~Enhances(a) /\ HasHash(rep) THEN {provider[a]} ELSE {}]
  /\ retry_count' = [retry_count EXCEPT ![a] = 0]
  /\ original_http_session' = [original_http_session EXCEPT ![a] = NoneAccessor]
  /\ audio_frames' = [audio_frames EXCEPT ![a] = <<>>]
  /\ yielded' = [yielded EXCEPT ![a] = <<>>]
  /\ log' = [log EXCEPT ![a] = <<>>]
  /\ stale' = [stale EXCEPT ![a] = FALSE]
  /\ surfaced' = [surfaced EXCEPT ![a] =
       IF ~Enhances(a) /\ ~HasHash(rep) THEN <<KeyErrorRaised>> ELSE <<>>]
  /\ pc' = [pc EXCEPT ![a] =
       IF Enhances(a) THEN "enhance"
       ELSE IF HasHash(rep) THEN "loop" ELSE "raised"]
  /\ running' = IF ~Enhances(a) /\ HasHash(rep) THEN a ELSE 0
  /\ UNCHANGED << env_openai_key, http_context_session, provider, api_key,
                  tts, http_session, file, inflight,
                  use_cerebras_enhancement, cerebras_llm, report_file,
                  output_path, args, provider_kwargs,
                  closed_backends,
                  invocation >>

\* cerebras_llm.chat answers: _enhance_text_with_cerebras returns, the
\* result replaces enhanced_message, the output path is built (KeyError
\* without agent_hash) and the retry loop is entered
EnhanceReturns(a, response) ==
  /\ pc[a] = "enhance" /\ running = 0
  /\ chats' = [chats EXCEPT ![a][Len(chats[a])].response = response]
  /\ enhanced_message' = [enhanced_message EXCEPT ![a] =
       EnhancedText(@, response)]
  /\ IF HasHash(report[a])
       THEN /\ audio_path' = [audio_path EXCEPT ![a] =
                 AudioPath(output_path, report[a])]
            /\ tried_providers' = [tried_providers EXCEPT ![a] = {provider[a]}]
            /\ pc' = [pc EXCEPT ![a] = "loop"]
            /\ running' = a
            /\ UNCHANGED surfaced
       ELSE /\ surfaced' = [surfaced EXCEPT ![a] = <<KeyErrorRaised>>]
            /\ pc' = [pc EXCEPT ![a] = "raised"]
            /\ UNCHANGED << audio_path, tried_providers, running >>
  /\ UNCHANGED << env_openai_key, http_context_session, provider, api_key,
                  tts, http_session, retry_count, original_http_session,
                  audio_frames, file, inflight, yielded, log, stale,
                  use_cerebras_enhancement, cerebras_llm,
                  report_file, report, output_path, args, provider_kwargs,
                  closed_backends,
                  invocation >>

SynthTextBase(a) == Get(report[a].aegong_message, <<>>)

SynthTextOfAttempt(a) ==
  IF log[a] = <<>> THEN enhanced_message[a]
  ELSE EnhanceReportWithDeeperAnalysis(
         report[a], Get(report[a].aegong_message, <<>>))

\* the text argument of self.tts.synthesize(text=enhanced_message)
SynthText(a) == enhanced_message[a]

\* top of the while loop up to "await asyncio.wait_for(...)"
StartAttempt(a) ==
  /\ pc[a] = "loop" /\ running = a
  /\ BudgetLeft(retry_count[a])
  /\ original_http_session' =
       [original_http_session EXCEPT ![a] =
          IF NeedsPatch(a) THEN http_context_session ELSE NoneAccessor]
  /\ http_context_session' = IF NeedsPatch(a) THEN a ELSE http_context_session
  /\ audio_frames' = [audio_frames EXCEPT ![a] = FreshFrames(a)]
  /\ yielded' = [yielded EXCEPT ![a] = <<>>]
  /\ log' = [log EXCEPT ![a] =
       Append(@, [provider |-> provider[a], backend |-> tts[a],
                  outcome |-> "pending", patched |-> NeedsPatch(a),
                  accEntry |-> http_context_session,
                  accExit |-> NoneAccessor,
                  save |-> "not_called", wrote |-> FALSE,
                  text |-> SynthText(a)])]
  /\ inflight' = [inflight EXCEPT ![a] = @ \cup {Len(log[a]) + 1}]
  /\ pc' = [pc EXCEPT ![a] = "synth"]
  /\ running' = 0
  /\ UNCHANGED << env_openai_key, provider, api_key, tts, http_session,
                  tried_providers, retry_count, file, stale, surfaced,
                  textvars >>

\* collect_audio_frames: a call in flight yields a frame, which is appended
\* to the list the nonlocal name audio_frames is bound to
FrameArrives(a, f) ==
  \E c \in inflight[a] :
  /\ running = 0
  /\ Len(audio_frames[a]) < MaxFrames
  /\ audio_frames' = [audio_frames EXCEPT ![a] = Append(@, f)]
  /\ yielded' = [yielded EXCEPT ![a] = IF c = Len(log[a]) THEN Append(@, f) ELSE @]
  /\ UNCHANGED << env_openai_key, http_context_session, running, pc, provider,
                  api_key, tts, http_session, tried_providers, retry_count,
                  original_http_session, file, inflight, log, stale, surfaced,
                  textvars >>

\* the frame stream ends before the deadline: wait_for returns, the frames
\* are saved, break, finally, return audio_path
SynthCompletes(a) ==
  /\ pc[a] = "synth" /\ running = 0
  /\ Len(log[a]) \in inflight[a]
  /\ ~SaveRaises(audio_frames[a], TRUE)
  /\ inflight' = [inflight EXCEPT ![a] = CallOver(a)]
  /\ file' = [file EXCEPT ![a] = SaveAudioFramesToWav(audio_frames[a], @)]
  /\ http_context_session' = Restore(original_http_session[a], http_context_session)
  /\ log' = [log EXCEPT ![a][Len(log[a])] =
       [@ EXCEPT !.outcome = IF yielded[a] = <<>> THEN "empty" ELSE "ok",
                 !.accExit = http_context_session',
                 !.save = "returned",
                 !.wrote = Writes(audio_frames[a])]]
  /\ pc' = [pc EXCEPT ![a] = "returned"]
  /\ UNCHANGED << env_openai_key, running, provider, api_key, tts,
                  http_session, tried_providers, retry_count,
                  original_http_session, audio_frames, yielded, stale,
                  surfaced, textvars >>

NextRetryCountKept(rc) == rc

\* retry_count += 1
NextRetryCount(rc) == rc + 1

\* which "raise" of the handler ends the request: the one that follows "No
\* more TTS providers available to try", reached with budget left, or the one
\* that follows "Failed to generate speech after ... retries"
RaiseExit(a) ==
  IF BudgetLeft(NextRetryCount(retry_count[a])) THEN "no_provider" ELSE "budget"

FirstError(a, cause) ==
  [op |-> "generate_voice_report", attempt |-> 1,
   cause |-> IF Len(log[a]) = 1 THEN cause ELSE log[a][1].outcome,
   exit |-> RaiseExit(a)]

\* the bare "raise" of the handler re-raises the exception it is handling,
\* the one of the attempt that has just failed
Reraised(a, cause) ==
  [op |-> "generate_voice_report", attempt |-> Len(log[a]), cause |-> cause,
   exit |-> RaiseExit(a)]

\* the backend raises (cause "error"), the deadline fires and wait_for
\* cancels the call (cause "timeout"), or the stream ends and saving the
\* frames raises (cause "assembly"): the "except Exception" handler and the
\* finally clause, up to "continue" or "raise".  ctor_ok: whether
\* openai.TTS(...) of the fallback succeeds.
AttemptFails(a, cause, ctor_ok) ==
  LET rc == NextRetryCount(retry_count[a])
      fb == PickFallback(tried_providers[a])
      restored == Restore(original_http_session[a],
                          Restore(original_http_session[a], http_context_session))
      falls == BudgetLeft(rc) /\ fb # NoProvider
      key == IF env_openai_key THEN "env" ELSE ""
  IN
  /\ pc[a] = "synth" /\ running = 0
  /\ Len(log[a]) \in inflight[a]
  /\ cause = "assembly" => SaveRaises(audio_frames[a], FALSE)
  /\ inflight' = [inflight EXCEPT ![a] = CallOver(a)]
  /\ http_context_session' = restored
  /\ retry_count' = [retry_count EXCEPT ![a] = rc]
  /\ log' = [log EXCEPT ![a][Len(log[a])] =
       [@ EXCEPT !.outcome = cause, !.accExit = restored,
                 !.save = IF cause = "assembly" THEN "raised" ELSE @]]
  /\ stale' = [stale EXCEPT ![a] = @ \/ audio_frames[a] # <<>>]
  /\ IF falls
       THEN /\ provider' = [provider EXCEPT ![a] = fb]
            /\ tried_providers' = [tried_providers EXCEPT ![a] = @ \cup {fb}]
            /\ api_key' = [api_key EXCEPT ![a] = IF fb = OPENAI THEN key ELSE @]
            /\ tts' = [tts EXCEPT ![a] =
                 IF fb = OPENAI /\ key # "" /\ ctor_ok THEN OPENAI ELSE @]
            /\ pc' = [pc EXCEPT ![a] = "loop"]
            /\ running' = a
            /\ UNCHANGED surfaced
       ELSE /\ pc' = [pc EXCEPT ![a] = "raised"]
            /\ surfaced' = [surfaced EXCEPT ![a] = << Reraised(a, cause) >>]
            /\ UNCHANGED << provider, tried_providers, api_key, tts, running >>
  /\ UNCHANGED << env_openai_key, http_session, original_http_session,
                  audio_frames, file, yielded, textvars >>

CancelAsException(a) == AttemptFails(a, "cancelled", TRUE)

\* the caller cancels the request while it awaits wait_for: wait_for cancels
\* the call it wraps, waits for it and raises asyncio.CancelledError, which is
\* a BaseException: "except asyncio.TimeoutError" and "except Exception" do not
\* catch it, the finally clause runs and the error leaves the request
Cancel(a) ==
  LET restored == Restore(original_http_session[a], http_context_session)
  IN
  /\ pc[a] = "synth" /\ running = 0
  /\ Len(log[a]) \in inflight[a]
  /\ inflight' = [inflight EXCEPT ![a] = CallOver(a)]
  /\ http_context_session' = restored
  /\ log' = [log EXCEPT ![a][Len(log[a])] =
       [@ EXCEPT !.outcome = "cancelled", !.accExit = restored]]
  /\ pc' = [pc EXCEPT ![a] = "cancelled"]
  /\ surfaced' = [surfaced EXCEPT ![a] =
       << [op |-> "generate_voice_report", attempt |-> Len(log[a]),
           cause |-> "cancelled", exit |-> "none"] >>]
  /\ UNCHANGED << env_openai_key, running, provider, api_key, tts,
                  http_session, tried_providers, retry_count,
                  original_http_session, audio_frames, file, yielded, stale,
                  textvars >>

\* main after parse_args when a credential is missing: parser.error prints
\* the message and exits with status 2
MainRejects(a) ==
  /\ pc[a] = "main" /\ running = 0
  /\ ConfigError(args)
  /\ pc' = [pc EXCEPT ![a] = "config_error"]
  /\ surfaced' = [surfaced EXCEPT ![a] =
       << [op |-> "main", attempt |-> 0, cause |-> "config",
           exit |-> "none"] >>]
  /\ UNCHANGED << env_openai_key, http_context_session, running, provider,
                  api_key, tts, http_session, tried_providers, retry_count,
                  original_http_session, audio_frames, file, inflight,
                  yielded, log, stale, textvars >>

\* main after parse_args when no credential is missing: the HTTP session is
\* created and the agent constructed with it
MainConstructs(a) ==
  /\ pc[a] = "main" /\ running = 0
  /\ ~ConfigError(args)
  /\ http_session' = [http_session EXCEPT ![a] = "own"]
  /\ provider' = [provider EXCEPT ![a] = args.provider]
  /\ api_key' = [api_key EXCEPT ![a] = "cfg"]
  /\ use_cerebras_enhancement' = [use_cerebras_enhancement EXCEPT ![a] =
       ~args.no_cerebras_enhancement]
  /\ provider_kwargs' = [provider_kwargs EXCEPT ![a] = MainKwargs(args)]
  /\ pc' = [pc EXCEPT ![a] = "new"]
  /\ UNCHANGED << env_openai_key, http_context_session, running, tts,
                  tried_providers, retry_count, original_http_session,
                  audio_frames, file, inflight, yielded, log, stale,
                  surfaced, cerebras_llm, report_file, report,
                  enhanced_message, chats, output_path, audio_path, args,
                  closed_backends,
                  invocation >>

\* AegongVoiceAgent(provider, api_key, use_cerebras_enhancement, **kwargs)
\* called by a library user: every keyword is stored in provider_kwargs
Construct(a, p, enhance, kwargs) ==
  /\ pc[a] = "unbuilt" /\ running = 0
  /\ provider' = [provider EXCEPT ![a] = p]
  /\ api_key' = [api_key EXCEPT ![a] = "cfg"]
  /\ use_cerebras_enhancement' = [use_cerebras_enhancement EXCEPT ![a] = enhance]
  /\ provider_kwargs' = [provider_kwargs EXCEPT ![a] = kwargs]
  /\ pc' = [pc EXCEPT ![a] = "new"]
  /\ UNCHANGED << env_openai_key, http_context_session, running, tts,
                  http_session, tried_providers, retry_count,
                  original_http_session, audio_frames, file, inflight,
                  yielded, log, stale, surfaced, cerebras_llm, report_file,
                  report, enhanced_message, chats, output_path, audio_path,
                  args, closed_backends,
                  invocation >>

GenerateLoadsFirst(a) ==
  /\ pc[a] \in {"new", "init_failed"} /\ running = 0
  /\ tts[a] = NoBackend
  /\ report' = [report EXCEPT ![a] = report_file]
  /\ surfaced' = [surfaced EXCEPT ![a] =
       << [op |-> "generate_voice_report", attempt |-> 0,
           cause |-> "RuntimeError", exit |-> "none"] >>]
  /\ UNCHANGED << env_openai_key, http_context_session, running, pc,
                  provider, api_key, tts, http_session, tried_providers,
                  retry_count, original_http_session, audio_frames, file,
                  inflight, yielded, log, stale, use_cerebras_enhancement,
                  cerebras_llm, report_file, enhanced_message, chats,
                  output_path, audio_path, args, provider_kwargs,
                  closed_backends,
                  invocation >>

\* generate_voice_report on an agent whose self.tts is None (initialize() was
\* not called, or raised): "if not self.tts: raise RuntimeError(...)" is the
\* first statement
GenerateUninitialized(a) ==
  /\ pc[a] \in {"new", "init_failed"} /\ running = 0
  /\ tts[a] = NoBackend
  /\ surfaced' = [surfaced EXCEPT ![a] =
       << [op |-> "generate_voice_report", attempt |-> 0,
           cause |-> "RuntimeError", exit |-> "none"] >>]
  /\ UNCHANGED << env_openai_key, http_context_session, running, pc,
                  provider, api_key, tts, http_session, tried_providers,
                  retry_count, original_http_session, audio_frames, file,
                  inflight, yielded, log, stale, textvars >>

\* close() up to its await, or to its end.  Only when self.provider is
\* CARTESIA and self.tts is set does it do anything: the accessor is saved
\* and patched and, if the backend has a close method (has_close), the
\* coroutine awaits self.tts.close(); without one the accessor is restored
\* at once.
CloseBegins(a, has_close) ==
  /\ pc[a] \in {"ready", "init_failed", "returned", "raised"} /\ running = 0
  /\ IF provider[a] = CARTESIA /\ tts[a] # NoBackend /\ has_close
       THEN /\ original_http_session' =
                 [original_http_session EXCEPT ![a] = http_context_session]
            /\ http_context_session' = a
            /\ pc' = [pc EXCEPT ![a] = "closing"]
       ELSE /\ pc' = [pc EXCEPT ![a] = "closed"]
            /\ UNCHANGED << original_http_session, http_context_session >>
  /\ UNCHANGED << env_openai_key, running, provider, api_key, tts,
                  http_session, tried_providers, retry_count, audio_frames,
                  file, inflight, yielded, log, stale, surfaced, textvars >>

\* "await self.tts.close()" returns (ok) and the accessor is restored, or it
\* raises: the restoring assignment is skipped, the handler catches
\* ImportError only, and the error leaves close()
CloseEnds(a, ok) ==
  /\ pc[a] = "closing" /\ running = 0
  /\ IF ok
       THEN /\ http_context_session' = original_http_session[a]
            /\ closed_backends' = [closed_backends EXCEPT ![a] = @ \cup {tts[a]}]
            /\ pc' = [pc EXCEPT ![a] = "closed"]
            /\ UNCHANGED surfaced
       ELSE /\ pc' = [pc EXCEPT ![a] = "close_failed"]
            /\ surfaced' = [surfaced EXCEPT ![a] =
                 << [op |-> "close", attempt |-> 0, cause |-> "error",
                     exit |-> "none"] >>]
            /\ UNCHANGED << http_context_session, closed_backends >>
  /\ UNCHANGED << env_openai_key, running, provider, api_key, tts,
                  http_session, tried_providers, retry_count,
                  original_http_session, audio_frames, file, inflight,
                  yielded, log, stale, use_cerebras_enhancement,
                  cerebras_llm, report_file, report, enhanced_message, chats,
                  output_path, audio_path, args, provider_kwargs,
                  invocation >>

\* the finally clause of main after agent.close() has returned:
\* "await http_session.close()" closes the session main created (when
\* close() raises, this statement is not reached)
MainClosesSession(a) ==
  /\ args # NoArgs
  /\ pc[a] = "closed" /\ running = 0
  /\ http_session' = [http_session EXCEPT ![a] = "closed"]
  /\ pc' = [pc EXCEPT ![a] = "exited"]
  /\ UNCHANGED << env_openai_key, http_context_session, running, provider,
                  api_key, tts, tried_providers, retry_count,
                  original_http_session, audio_frames, file, inflight,
                  yielded, log, stale, surfaced, textvars >>

\* lambda_handler from its first line to the first API call or to its
\* return: preflight, missing REGION or INSTANCE_ID, routing
LambdaHandler(event) ==
  LET inv == [invocation EXCEPT !.event = event, !.calls = <<>>,
                                !.current_state = "unset",
                                !.response = NoInvocation.response]
  IN
  /\ invocation.at \in {"idle", "responded"}
  /\ invocation' =
       IF event.httpMethod = "OPTIONS" THEN Respond(inv, 200, "CORS preflight")
       ELSE IF ~inv.env_ok THEN Respond(inv, 500, "Configuration error")
       ELSE IF Route(event) = "start" THEN [inv EXCEPT !.at = "start_describe"]
       ELSE IF Route(event) = "status" THEN [inv EXCEPT !.at = "status_describe"]
       ELSE Respond(inv, 404, "Not found")
  /\ UNCHANGED agentvars

\* handle_start_instance: describe_instances, then the test of the state
HandleStartDescribes(outcome) ==
  LET inv == [invocation EXCEPT !.calls = Append(@, "describe_instances")]
      seen == [inv EXCEPT !.current_state = inv.instance_state]
  IN
  /\ invocation.at = "start_describe"
  /\ invocation' =
       IF outcome # "ok" THEN ErrorResponse(inv, outcome)
       ELSE IF ShouldStart(seen.current_state)
         THEN [seen EXCEPT !.at = "start_call"]
         ELSE Respond(seen, 200, "already_running")
  /\ UNCHANGED agentvars

\* handle_start_instance: start_instances and the response; EC2 refuses to
\* start an instance that is stopping
HandleStartStarts(outcome) ==
  LET inv == [invocation EXCEPT !.calls = Append(@, "start_instances")]
  IN
  /\ invocation.at = "start_call"
  /\ outcome = "ok" => invocation.instance_state # "stopping"
  /\ invocation' =
       IF outcome # "ok" THEN ErrorResponse(inv, outcome)
       ELSE Respond([inv EXCEPT !.instance_state =
                       IF @ = "stopped" THEN "pending" ELSE @],
                    200, "starting")
  /\ UNCHANGED agentvars

\* handle_check_status: describe_instances and the response
HandleCheckStatus(outcome) ==
  LET inv == [invocation EXCEPT !.calls = Append(@, "describe_instances")]
  IN
  /\ invocation.at = "status_describe"
  /\ invocation' =
       IF outcome # "ok" THEN ErrorResponse(inv, outcome)
       ELSE Respond([inv EXCEPT !.current_state = inv.instance_state],
                    200, "status")
  /\ UNCHANGED agentvars

\* the instance moves on by itself or is stopped by somebody else, at any
\* time, also between two API calls of the handler
InstanceChanges ==
  /\ invocation.instance_state # "stopped"
  /\ invocation' = [invocation EXCEPT !.instance_state =
       CASE @ = "pending" -> "running"
         [] @ = "running" -> "stopping"
         [] @ = "stopping" -> "stopped"]
  /\ UNCHANGED agentvars

Step(a) ==
  \/ \E llm_ok \in BOOLEAN : Initialize(a, llm_ok)
  \/ \E why \in {"plugin", "ctor"} : InitializeFails(a, why)
  \/ BeginRequest(a)
  \/ StartAttempt(a)
  \/ \E f \in FrameSet : FrameArrives(a, f)
  \/ SynthCompletes(a)
  \/ \E cause \in {"error", "timeout", "assembly"}, ctor_ok \in BOOLEAN :
       AttemptFails(a, cause, ctor_ok)

Next == \E a \in {1} : Step(a)

Spec == Init /\ [][Next]_vars

\* Two agents, each with its own caller-provided session and output path,
\* one request each, interleaved at their awaits.
InitConc ==
  /\ InitFor(Agents)
  /\ \A a \in Agents : ~use_cerebras_enhancement[a]
  /\ report_file = BaseReport
  /\ args = NoArgs
  /\ invocation = NoInvocation
  /\ output_path = <<"out">>
  /\ \A a \in Agents : provider[a] \in {CARTESIA, OPENAI} /\ http_session[a] = "own"

\* the first request of an agent
BeginOnlyRequest(a) == BeginRequest(a) /\ pc[a] = "ready"

\* the single mono frame of a call
OnlyFrameArrives(a, f) ==
  FrameArrives(a, f) /\ audio_frames[a] = <<>> /\ f.num_channels = 1

NextConc ==
  \E a \in Agents :
    \/ Initialize(a, TRUE)
    \/ BeginOnlyRequest(a)
    \/ StartAttempt(a)
    \/ \E f \in FrameSet : OnlyFrameArrives(a, f)
    \/ SynthCompletes(a)
    \/ \E cause \in {"error", "timeout"} : AttemptFails(a, cause, TRUE)

SpecConc == InitConc /\ [][NextConc]_vars

\* One OpenAI agent built with or without use_cerebras_enhancement; its
\* request loads a report of any validity and of a risk score around the
\* tone thresholds (scores in tenths).
EnhReports ==
  {[BaseReport EXCEPT
      !.is_agent = v, !.risk_score = r,
      !.recommendations =
         << << <<"Enable", " ", "memory", " ", "integrity">> >> >>] :
     v \in {<<>>, <<FALSE>>, <<TRUE>>},
     r \in {<<>>, <<0>>, <<25>>, <<26>>, <<50>>, <<51>>, <<75>>, <<76>>, <<100>>}}

InitEnh ==
  /\ InitFor({1})
  /\ provider[1] = OPENAI /\ http_session[1] = NoSession /\ env_openai_key
  /\ report_file \in EnhReports
  /\ args = NoArgs
  /\ invocation = NoInvocation
  /\ output_path = <<"out">>

NextEnh ==
  \E a \in {1} :
    \/ \E llm_ok \in BOOLEAN : Initialize(a, llm_ok)
    \/ BeginOnlyRequest(a)
    \/ \E response \in ChatResponses : EnhanceReturns(a, response)
    \/ StartAttempt(a)
    \/ \E f \in FrameSet : OnlyFrameArrives(a, f)
    \/ SynthCompletes(a)
    \/ AttemptFails(a, "error", TRUE)

SpecEnh == InitEnh /\ [][NextEnh]_vars

\* recommendation strings: plain, annotated, in mixed case, with two
\* keywords, with no keyword, with an annotation in other case or in the
\* middle of the text
TextRecs ==
  { <<"memory", " ", "integrity">>,
    <<"MEMORY", " ", "Integrity", " ", "(", "1", "2", " ", "instances", " ",
      "detected", ")">>,
    <<"Memory", " ", "integrity", " ", "and", " ", "Objective", " ",
      "integrity">>,
    <<"memory", " ", "integrity", " ", "and", " ", "objective", " ",
      "integrity", "(", "3", " ", "instances", " ", "detected", ")">>,
    <<"rotate", " ", "keys">>,
    <<"Check", " ", "(", "3", " ", "Instances", " ", "detected", ")">>,
    <<"module", " ", "(", "2", " ", "instances", " ", "detected", ")", " ",
      "validation">> }

\* the lists of at most n recommendations
RECURSIVE RecLists(_)
RecLists(n) ==
  IF n = 0 THEN { <<>> }
  ELSE RecLists(n - 1)
         \cup {Append(l, r) : l \in {m \in RecLists(n - 1) : Len(m) = n - 1},
                              r \in TextRecs}

\* reports with and without agent_name, aegong_message and recommendations
TextReports ==
  {[NoReport EXCEPT !.agent_name = n, !.aegong_message = m,
                    !.agent_hash = <<BaseHash>>,
                    !.recommendations = recs] :
     n \in {<<>>, <<"TestAgent">>},
     m \in {<<>>, << <<"Audit", " ", "complete.">> >>},
     recs \in {<<>>} \cup {<<l>> : l \in RecLists(MaxRecs)}}

\* One OpenAI agent without enhancement; its request loads any of the
\* reports above and composes the narration it synthesizes.
InitText ==
  /\ InitFor({1})
  /\ provider[1] = OPENAI /\ http_session[1] = NoSession /\ env_openai_key
  /\ ~use_cerebras_enhancement[1]
  /\ report_file \in TextReports
  /\ args = NoArgs
  /\ invocation = NoInvocation
  /\ output_path = <<"out">>

NextText ==
  \E a \in {1} :
    \/ Initialize(a, TRUE)
    \/ BeginOnlyRequest(a)
    \/ StartAttempt(a)
    \/ \E f \in FrameSet : OnlyFrameArrives(a, f)
    \/ SynthCompletes(a)

SpecText == InitText /\ [][NextText]_vars

\* agent_hash values: absent, empty, shorter than 8 characters, and longer
\* ones that agree or differ in their first 8 characters
Hashes ==
  { <<>>, << <<>> >>, << <<"a", "1", "b">> >>, <<BaseHash>>,
    << <<"a", "1", "b", "2", "c", "3", "d", "4", "f", "6", "g">> >>,
    << <<"z", "1", "b", "2", "c", "3", "d", "4", "e", "5">> >> }

\* reports with all other keys present or all other keys absent
PathReports ==
  {[r EXCEPT !.agent_hash = h] : r \in {BaseReport, NoReport}, h \in Hashes}

OutputDirs == { <<>>, <<"out">>, <<"out", "/">> }

\* One agent without enhancement, configured for OpenAI or Google; its
\* requests are given one output directory and load one report, with or
\* without agent_hash.
InitPath ==
  /\ InitFor({1})
  /\ provider[1] \in {OPENAI, GOOGLE} /\ http_session[1] = NoSession
  /\ ~use_cerebras_enhancement[1]
  /\ report_file \in PathReports
  /\ args = NoArgs
  /\ invocation = NoInvocation
  /\ output_path \in OutputDirs

NextPath ==
  \E a \in {1} :
    \/ Initialize(a, TRUE)
    \/ BeginRequest(a)
    \/ StartAttempt(a)
    \/ \E f \in FrameSet : OnlyFrameArrives(a, f)
    \/ SynthCompletes(a)
    \/ \E cause \in {"error", "timeout"} : AttemptFails(a, cause, TRUE)

SpecPath == InitPath /\ [][NextPath]_vars

\* One agent of any provider, with or without a session, whose only request
\* may be cancelled by its caller while a synthesis call is in flight.
InitCancel ==
  /\ InitFor({1})
  /\ ~use_cerebras_enhancement[1]
  /\ report_file = BaseReport
  /\ args = NoArgs
  /\ invocation = NoInvocation
  /\ output_path = <<"out">>

NextCancel ==
  \E a \in {1} :
    \/ Initialize(a, TRUE)
    \/ BeginOnlyRequest(a)
    \/ StartAttempt(a)
    \/ \E f \in FrameSet : OnlyFrameArrives(a, f)
    \/ SynthCompletes(a)
    \/ \E cause \in {"error", "timeout"}, ctor_ok \in BOOLEAN :
         AttemptFails(a, cause, ctor_ok)
    \/ Cancel(a)

SpecCancel == InitCancel /\ [][NextCancel]_vars

\* One agent of any provider, with or without enhancement, with or without
\* an OpenAI key in the environment, and its first request.  The event loop
\* runs the request whenever it can proceed, and every synthesis call
\* finishes, raises or is cut by the deadline of wait_for; nothing is assumed
\* of the LLM call, which is awaited without a deadline.
InitLive ==
  /\ InitFor({1})
  /\ http_session[1] = NoSession
  /\ report_file = BaseReport
  /\ args = NoArgs
  /\ invocation = NoInvocation
  /\ output_path = <<"out">>

SynthCallEnds(a) ==
  \/ SynthCompletes(a)
  \/ \E cause \in {"error", "timeout"}, ctor_ok \in BOOLEAN :
       AttemptFails(a, cause, ctor_ok)

NextLive ==
  \E a \in {1} :
    \/ \E llm_ok \in BOOLEAN : Initialize(a, llm_ok)
    \/ BeginOnlyRequest(a)
    \/ \E response \in ChatResponses : EnhanceReturns(a, response)
    \/ StartAttempt(a)
    \/ \E f \in FrameSet : OnlyFrameArrives(a, f)
    \/ SynthCallEnds(a)

SpecLive ==
  /\ InitLive /\ [][NextLive]_vars
  /\ WF_vars(StartAttempt(1))
  /\ WF_vars(SynthCallEnds(1))

\* The instance-lifecycle handler alone: REGION and INSTANCE_ID set or not,
\* the instance in any state, one invocation after the other.
InitLambda ==
  /\ InitFor({})
  /\ report_file = BaseReport
  /\ args = NoArgs
  /\ output_path = <<"out">>
  /\ invocation \in
       {[NoInvocation EXCEPT !.env_ok = e, !.instance_state = st] :
          e \in BOOLEAN, st \in InstanceStates}

NextLambda ==
  \/ \E event \in Events : LambdaHandler(event)
  \/ \E outcome \in Outcomes : HandleStartDescribes(outcome)
  \/ \E outcome \in Outcomes : HandleStartStarts(outcome)
  \/ \E outcome \in Outcomes : HandleCheckStatus(outcome)
  \/ InstanceChanges

SpecLambda == InitLambda /\ [][NextLambda]_vars

\* One agent not yet constructed: either main has parsed a command line and
\* is about to check the credentials, or a library caller is about to call
\* the constructor.
InitCli ==
  /\ pc \in [Agents -> {"main", "unbuilt", "new"}]
  /\ pc[1] # "new" /\ pc[2] = "new"
  /\ InitState({1})
  /\ provider[1] = OPENAI /\ ~use_cerebras_enhancement[1]
  /\ pc[1] = "main" => http_session[1] = NoSession
  /\ args \in IF pc[1] = "main" THEN MainArgs ELSE {NoArgs}
  /\ invocation = NoInvocation
  /\ pc[1] = "main" /\ env_openai_key => "openai" \in args.creds
  /\ report_file = BaseReport
  /\ output_path = <<"out">>

NextCli ==
  \E a \in {1} :
    \/ MainRejects(a)
    \/ MainConstructs(a)
    \/ \E p \in Providers, enhance \in BOOLEAN, kwargs \in CallerOptions :
         Construct(a, p, enhance, kwargs)
    \/ \E llm_ok \in BOOLEAN : Initialize(a, llm_ok)
    \/ \E why \in {"plugin", "ctor"} : InitializeFails(a, why)
    \/ BeginOnlyRequest(a)
    \/ \E response \in ChatResponses : EnhanceReturns(a, response)
    \/ StartAttempt(a)
    \/ \E f \in FrameSet : OnlyFrameArrives(a, f)
    \/ SynthCompletes(a)
    \/ AttemptFails(a, "error", TRUE)
    \/ GenerateUninitialized(a)
    \/ \E has_close \in BOOLEAN : CloseBegins(a, has_close)
    \/ \E ok \in BOOLEAN : CloseEnds(a, ok)
    \/ MainClosesSession(a)

SpecCli == InitCli /\ [][NextCli]_vars

\* ------------------------------------------------------------------ claims
InRequest(a) == pc[a] \in {"loop", "synth", "returned", "raised"}

Failed(e) == e.outcome \in {"error", "timeout", "assembly"}

Last(a) == log[a][Len(log[a])]

\* position of provider p in the enumeration
Ord(p) == CHOOSE i \in 1..Len(TTSProvider) : TTSProvider[i] = p

\* C1: one request invokes synthesize at most 3 times; a request is failed
\* only after exactly 3 attempts, and three failed attempts fail the request
\* (there is no fourth).
C1_AtMostThreeAttempts ==
  \A a \in Agents :
    /\ Len(log[a]) <= 3
    /\ pc[a] = "raised" => Len(log[a]) = 3
    /\ (Len(log[a]) = 3 /\ \A i \in 1..3 : Failed(log[a][i])) => pc[a] = "raised"
    /\ (pc[a] = "loop" /\ Len(log[a]) > 0) => \A i \in 1..Len(log[a]) : Failed(log[a][i])

C1_Witness ==
  /\ pc[1] = "raised" /\ Len(log[1]) = 3
  /\ log[1][1].outcome = "timeout" /\ log[1][3].outcome = "error"

\* C2: first attempt on a provider other than OpenAI timed out, second
\* attempt on the OpenAI backend raised, third attempt succeeded: the
\* artifact returned comes from the backend of the third provider, which is
\* neither of the first two backends.
C2_ThirdProviderArtifact ==
  \A a \in Agents :
    ( /\ pc[a] = "returned" /\ Len(log[a]) = 3
      /\ log[a][1].provider # OPENAI /\ log[a][1].outcome = "timeout"
      /\ log[a][2].provider = OPENAI /\ log[a][2].backend = OPENAI
      /\ log[a][2].outcome = "error"
      /\ log[a][3].outcome = "ok" )
    => /\ log[a][3].backend = log[a][3].provider
       /\ log[a][3].backend \notin {log[a][1].backend, log[a][2].backend}

\* a step of agent a that selects a fallback provider
SelectsFallback(a) ==
  pc[a] = "synth" /\ tried_providers'[a] # tried_providers[a]

C3_Choice(a) ==
  LET tried == tried_providers[a]
      sel == provider'[a]
  IN /\ sel \in Providers \ tried
     /\ OPENAI \notin tried => sel = OPENAI
     /\ OPENAI \in tried =>
          \A p \in Providers \ tried : Ord(sel) <= Ord(p)
     /\ tried_providers'[a] = tried \cup {sel}

\* C3: a selected fallback is OpenAI when OpenAI is untried, otherwise the
\* first untried provider in enumeration order, never a tried one; within a
\* request the tried-set only grows and contains the current provider.
C3_FallbackChoice ==
  /\ [](\A a \in Agents : InRequest(a) => provider[a] \in tried_providers[a])
  /\ [][\A a \in Agents :
          /\ SelectsFallback(a) => C3_Choice(a)
          /\ (pc[a] \in {"loop", "synth"} /\ provider'[a] # provider[a])
               => SelectsFallback(a)
          /\ pc[a] \in {"loop", "synth"}
               => tried_providers[a] \subseteq tried_providers'[a]]_vars

C3_Witness ==
  /\ pc[1] = "loop" /\ Len(log[1]) = 2
  /\ log[1][1].provider = AZURE /\ log[1][2].provider = OPENAI
  /\ provider[1] = GOOGLE
  /\ tried_providers[1] = {AZURE, OPENAI, GOOGLE}

\* C4: every attempt invokes the backend of the provider that is current at
\* that attempt, and no backend is invoked by two attempts of a request.
C4_BackendIsCurrentProviders ==
  \A a \in Agents :
    \A i \in 1..Len(log[a]) :
      /\ log[a][i].backend = log[a][i].provider
      /\ \A j \in 1..Len(log[a]) :
           i # j => log[a][i].backend # log[a][j].backend

\* C5: assembling zero frames ends in an error and creates no file.
C5_EmptyAssemblyFails ==
  \A a \in Agents :
    \A i \in 1..Len(log[a]) :
      (log[a][i].save # "not_called" /\ log[a][i].outcome = "empty")
        => log[a][i].save = "raised" /\ ~log[a][i].wrote

\* C6: a request that returned its output path had an attempt that wrote the
\* output file, and an attempt that yielded no frame is a failed attempt.
C6_ReturnedPathWasWritten ==
  \A a \in Agents :
    /\ pc[a] = "returned" => \E i \in 1..Len(log[a]) : log[a][i].wrote
    /\ \A i \in 1..Len(log[a]) :
         log[a][i].outcome = "empty" => pc[a] # "returned"

C8_AccessorRestored ==
  \A a \in {1} :
    /\ \A i \in 1..Len(log[a]) :
         (log[a][i].patched /\ log[a][i].outcome # "pending")
           => log[a][i].accExit = log[a][i].accEntry
    /\ (pc[a] \in {"loop", "returned", "raised"} /\ Len(log[a]) > 0
          /\ \E i \in 1..Len(log[a]) : log[a][i].patched)
         => http_context_session = log[a][1].accEntry

C8_Witness ==
  /\ pc[1] = "loop" /\ Len(log[1]) = 1
  /\ log[1][1].patched /\ log[1][1].outcome = "timeout"
  /\ http_context_session = LibraryAccessor

\* C9: two concurrent Cartesia requests share nothing: while one is in its
\* synthesis call the accessor does not hand out the other agent's session,
\* and once both are over the accessor is the one from before they began.
C9_NoSharedAccessor ==
  /\ (\A a \in Agents : pc[a] \in {"returned", "raised"})
       => http_context_session = LibraryAccessor
  /\ \A a \in Agents :
       (pc[a] = "synth" /\ Last(a).patched)
         => \A b \in Agents \ {a} :
              AccessorReturns(http_context_session) # <<b, http_session[b]>>

\* C10: at most one synthesize call of a request is in flight, and an
\* attempt begins only when no call of the request is in flight.
C10_OneCallInFlight ==
  /\ [](\A a \in Agents : Cardinality(inflight[a]) <= 1)
  /\ [][\A a \in Agents :
          Len(log'[a]) = Len(log[a]) + 1 => inflight[a] = {}]_vars

C10_Witness ==
  /\ pc[1] = "synth" /\ Len(log[1]) = 3
  /\ log[1][1].outcome = "timeout" /\ log[1][2].outcome = "error"
  /\ inflight[1] = {3}

\* C11: the error a failed request raises is the error of its last attempt.
C11_LastCauseSurfaced ==
  \A a \in Agents :
    pc[a] = "raised" =>
      /\ surfaced[a] # <<>>
      /\ surfaced[a][1].op = "generate_voice_report"
      /\ surfaced[a][1].attempt = Len(log[a])
      /\ surfaced[a][1].cause = Last(a).outcome

C11_Witness ==
  /\ pc[1] = "raised"
  /\ log[1][1].outcome = "error" /\ log[1][2].outcome = "assembly"
  /\ log[1][3].outcome = "timeout"
  /\ surfaced[1][1].cause = "timeout"

\* a step in which the attempt in flight of agent a fails
FailsNow(a) ==
  /\ pc[a] = "synth" /\ Last(a).outcome = "pending"
  /\ Len(log'[a]) = Len(log[a]) /\ Failed(log'[a][Len(log[a])])

\* C12: a failed first or second attempt raises nothing to the caller and is
\* followed by another attempt; generate_voice_report raises a synthesis
\* failure only when three attempts have failed.
C12_FailuresAbsorbed ==
  /\ [](\A a \in Agents :
          (surfaced[a] # <<>> /\ surfaced[a][1].op = "generate_voice_report")
            => Len(log[a]) = 3 /\ \A i \in 1..3 : Failed(log[a][i]))
  /\ [][\A a \in Agents :
          /\ (FailsNow(a) /\ Len(log[a]) < 3)
               => pc'[a] = "loop" /\ surfaced'[a] = <<>>
          /\ (pc[a] = "loop" /\ pc'[a] # "loop")
               => pc'[a] = "synth" /\ Len(log'[a]) = Len(log[a]) + 1]_vars

C12_Witness ==
  /\ pc[1] = "synth" /\ Len(log[1]) = 3
  /\ log[1][1].outcome = "assembly" /\ log[1][2].outcome = "timeout"
  /\ surfaced[1] = <<>>

\* C13: no attempt follows the selection of OpenAI as fallback when
\* OPENAI_API_KEY is missing: the request has failed.
C13_MissingKeyIsFatal ==
  \A a \in Agents :
    /\ \A i \in 2..Len(log[a]) :
         ~(log[a][i].provider = OPENAI /\ log[a][1].provider # OPENAI
             /\ ~env_openai_key)
    /\ (InRequest(a) /\ Len(log[a]) > 0 /\ log[a][1].provider # OPENAI
          /\ provider[a] = OPENAI /\ api_key[a] = "")
         => pc[a] = "raised"

\* C14 as stated: a missing plugin of the configured provider is not fatal to
\* the caller (four other providers are untried at that point).
C14_MissingPluginFallsBack ==
  \A a \in Agents :
    ~(surfaced[a] # <<>> /\ surfaced[a][1].op = "initialize"
        /\ surfaced[a][1].cause = "plugin")

\* C14 amended: a failed initialize() raises to its caller and leaves the
\* agent without backend, without fallback and without attempt; a provider
\* is replaced only by the handler of a failed synthesis attempt.
C14_FailedInitializeIsFatal ==
  /\ [](\A a \in Agents :
          pc[a] = "init_failed" =>
            /\ surfaced[a] # <<>> /\ surfaced[a][1].op = "initialize"
            /\ tts[a] = NoBackend
            /\ log[a] = <<>> /\ tried_providers[a] = {})
  /\ [][\A a \in Agents :
          /\ pc[a] = "init_failed" => pc'[a] = "init_failed"
          /\ provider'[a] # provider[a] => pc[a] = "synth"]_vars

C14_Witness ==
  /\ pc[1] = "init_failed" /\ provider[1] = GOOGLE
  /\ surfaced[1][1].cause = "plugin"
  /\ tts[1] = NoBackend


\* the request of agent a has got past the enhancement step
Enhanced(a) == InRequest(a) /\ chats[a] # <<>>

\* a failure of the text backend: chat raised, or its response is malformed
\* (no choices, no content) or empty (content "")
BackendFailure(response) ==
  \/ response.kind \in {"raises", "no_choices", "content_none"}
  \/ response.kind = "content" /\ response.content = <<>>

\* C15: enhancement never raises; after any failure of the text backend the
\* text that goes on to synthesis is exactly the text that was handed to the
\* enhancer, and without an LLM no chat call is made.
C15_EnhanceFailureReturnsInput ==
  \A a \in Agents :
    /\ ~cerebras_llm[a] => chats[a] = <<>>
    /\ Enhanced(a) /\ BackendFailure(chats[a][1].response)
         => enhanced_message[a] = chats[a][1].prompt.text

\* C16: the tone band sent with an enhancement prompt is dismissive exactly
\* for a report that is not a valid agent, and otherwise alarmed above 7.5,
\* disapproving above 5 up to 7.5, mixed above 2.5 up to 5, reluctantly
\* impressed up to 2.5 (scores in tenths; absent score 0, absent validity
\* false).
C16_ToneBand ==
  \A a \in Agents : \A i \in 1..Len(chats[a]) :
    LET mood == chats[a][i].prompt.mood_instruction
        v == Get(report[a].is_agent, FALSE)
        r == Get(report[a].risk_score, 0)
    IN /\ mood \in {"dismissive", "alarmed", "disapproving", "mixed", "impressed"}
       /\ mood = "dismissive" <=> ~v
       /\ mood = "alarmed" <=> v /\ r > 75
       /\ mood = "disapproving" <=> v /\ r > 50 /\ r <= 75
       /\ mood = "mixed" <=> v /\ r > 25 /\ r <= 50
       /\ mood = "impressed" <=> v /\ r <= 25

C16_Witness ==
  /\ Enhanced(1)
  /\ report[1].is_agent = <<TRUE>> /\ report[1].risk_score = <<75>>
  /\ chats[1][1].prompt.mood_instruction = "disapproving"

\* C17: with enhancement disabled (flag off or no LLM) no chat call is made
\* and every attempt synthesizes exactly the composed narration of the
\* loaded report.
C17_DisabledEnhancementIsIdentity ==
  \A a \in Agents :
    ~(use_cerebras_enhancement[a] /\ cerebras_llm[a]) =>
      /\ chats[a] = <<>>
      /\ \A i \in 1..Len(log[a]) :
           log[a][i].text =
             EnhanceReportWithDeeperAnalysis(
               report[a], Get(report[a].aegong_message, <<>>))

C17_Witness ==
  /\ ~use_cerebras_enhancement[1] /\ pc[1] = "returned"
  /\ Len(log[1]) = 3 /\ chats[1] = <<>>
  /\ report[1].recommendations # <<>>
  /\ log[1][3].text = enhanced_message[1]


\* the request of agent a has composed its narration and does not enhance it
Composed(a) == InRequest(a) /\ chats[a] = <<>>

\* the recommendations of the loaded report
RecsOf(a) == Get(report[a].recommendations, <<>>)

\* identity framing followed by the report's message
Framing(a) ==
  <<Intro, Get(report[a].agent_name, "Unknown Agent"), "'. ">>
    \o Get(report[a].aegong_message, <<>>)

RECURSIVE ItemStart(_, _)
\* where item i begins in the narration when the header follows the framing
\* and every item takes five tokens and its recommendation
ItemStart(a, i) ==
  IF i = 1 THEN Len(Framing(a)) + 2
  ELSE ItemStart(a, i - 1) + 5 + Len(RecsOf(a)[i - 1])

\* the explanation the narration gives with item i
ExplanationAt(a, i) ==
  enhanced_message[a][ItemStart(a, i) + 4 + Len(RecsOf(a)[i])]

\* upper- and lower-case spellings of the same word
SameWord(t, u) ==
  \/ t = u
  \/ \E c \in {{"memory", "Memory", "MEMORY"},
               {"integrity", "Integrity", "INTEGRITY"},
               {"objective", "Objective"}} : {t, u} \subseteq c

SameUpToCase(r, q) ==
  Len(r) = Len(q) /\ \A k \in 1..Len(r) : SameWord(r[k], q[k])

\* r is q, or q followed by "(N instances detected)" with or without a space
TrailingAnnotationOf(r, q) ==
  \/ r = q
  \/ \E sp \in {<<>>, <<" ">>}, n \in {<<"3">>, <<"1", "2">>} :
       r = q \o sp \o <<"(">> \o n
             \o <<" ", "instances", " ", "detected", ")">>

\* C18: a recommendation with a trailing "(N instances detected)" is given
\* the explanation of the same recommendation without it, and upper or lower
\* case in the recommendation makes no difference to the explanation.
C18_AnnotationAndCaseIgnored ==
  \A a \in Agents : Composed(a) =>
    \A i \in 1..Len(RecsOf(a)) : \A q \in TextRecs :
      (\E k \in 0..Len(RecsOf(a)[i]) :
          /\ TrailingAnnotationOf(RecsOf(a)[i], SubSeq(RecsOf(a)[i], 1, k))
          /\ SameUpToCase(SubSeq(RecsOf(a)[i], 1, k), q))
        => ExplanationAt(a, i) = ExplanationOf(q)

C18_Witness ==
  /\ Composed(1) /\ Len(RecsOf(1)) = 2
  /\ RecsOf(1)[2][1] = "MEMORY" /\ RecsOf(1)[2][Len(RecsOf(1)[2])] = ")"
  /\ ExplanationAt(1, 2) = RECOMMENDATION_EXPLANATIONS[3].detail

\* the table entries whose keyword occurs in the lower-cased recommendation
\* once its annotations and outer whitespace are removed
Hits(r) ==
  {k \in 1..Len(RECOMMENDATION_EXPLANATIONS) :
     Contains(CoreRec(r), RECOMMENDATION_EXPLANATIONS[k].keyword)}

\* C19: the explanation of a recommendation is the entry of the first
\* keyword, in the table's definition order, that occurs in the normalized
\* recommendation, and the default explanation when none occurs.
C19_FirstKeywordInTableOrder ==
  \A a \in Agents : Composed(a) =>
    \A i \in 1..Len(RecsOf(a)) :
      LET hits == Hits(RecsOf(a)[i])
      IN ExplanationAt(a, i) =
           IF hits = {} THEN DEFAULT_EXPLANATION
           ELSE RECOMMENDATION_EXPLANATIONS[
                  CHOOSE k \in hits : \A m \in hits : k <= m].detail

C19_Witness ==
  /\ Composed(1) /\ Len(RecsOf(1)) = 2
  /\ Hits(RecsOf(1)[1]) = {2, 3}
  /\ ExplanationAt(1, 1) = RECOMMENDATION_EXPLANATIONS[2].detail
  /\ Hits(RecsOf(1)[2]) = {}
  /\ ExplanationAt(1, 2) = DEFAULT_EXPLANATION

Numeral(i) == CASE i = 1 -> "1" [] i = 2 -> "2" [] i = 3 -> "3" [] OTHER -> "4"

Count(s, t) == Cardinality({k \in 1..Len(s) : s[k] = t})

\* C20: without recommendations the narration is framing, message and
\* closing and nothing else; with n recommendations the header appears once
\* after the message, followed by exactly n items "i. <recommendation i>.
\* <explanation i>", numbered 1..n in the order of the list, then the closing.
C20_NarrationShape ==
  \A a \in Agents : Composed(a) =>
    LET N == enhanced_message[a]
        n == Len(RecsOf(a))
    IN IF n = 0
         THEN /\ N = Framing(a) \o <<Closing>>
              /\ Count(N, Header) = 0 /\ Count(N, "<NL><NL>") = 0
         ELSE /\ SubSeq(N, 1, Len(Framing(a)) + 1) = Framing(a) \o <<Header>>
              /\ Count(N, Header) = 1
              /\ Count(N, "<NL><NL>") = n
              /\ \A i \in 1..n :
                   SubSeq(N, ItemStart(a, i), ItemStart(a, i + 1) - 1) =
                     <<"<NL><NL>", Numeral(i), ". ">> \o RecsOf(a)[i]
                       \o <<". ", ExplanationOf(RecsOf(a)[i])>>
              /\ Len(N) = ItemStart(a, n + 1)
              /\ N[Len(N)] = Closing

C20_Witness ==
  /\ Composed(1) /\ Len(RecsOf(1)) = 2 /\ pc[1] = "returned"
  /\ RecsOf(1)[1] # RecsOf(1)[2]
  /\ enhanced_message[1][ItemStart(1, 2) + 1] = "2"
  /\ log[1][1].text = enhanced_message[1]


RECURSIVE Payloads(_)
\* the payloads of a frame list one after the other, first frame first
Payloads(frames) ==
  IF frames = <<>> THEN <<>>
  ELSE Payloads(SubSeq(frames, 1, Len(frames) - 1)) \o frames[Len(frames)].data

C22_NoKeyRequired ==
  \A a \in Agents :
    pc[a] = "raised" =>
      /\ Len(log[a]) >= 1
      /\ surfaced[a][1].cause \in {"error", "timeout", "assembly"}

\* the first 8 characters of a hash, or all of a shorter one
First8(h) == [i \in 1..(IF Len(h) < 8 THEN Len(h) ELSE 8) |-> h[i]]

\* the file name in the given directory
InDirectory(dir, name) ==
  CASE dir = <<>> -> name
    [] dir = <<"out">> -> <<"out", "/">> \o name
    [] dir = <<"out", "/">> -> <<"out", "/">> \o name

\* C25: the path a request returns is the file "aegong_report_" + first 8
\* characters of agent_hash + ".wav" in the output directory, whatever the
\* configured provider, the provider that succeeded and the number of
\* fallbacks; a request for the same report returns the path the request
\* before it returned.
C25_PathDeterminedByDirAndPrefix ==
  /\ [](\A a \in Agents :
          pc[a] = "returned" =>
            audio_path[a] =
              InDirectory(output_path,
                          <<"aegong_report_">>
                            \o First8(report[a].agent_hash[1]) \o <<".wav">>))
  /\ [][\A a \in Agents :
          pc[a] = "returned" /\ pc'[a] = "loop" =>
            audio_path'[a] = audio_path[a]]_vars

C25_Witness ==
  /\ pc[1] = "returned" /\ Len(log[1]) = 3
  /\ log[1][1].provider = GOOGLE /\ log[1][3].provider = AZURE
  /\ Len(report[1].agent_hash[1]) = 11
  /\ audio_path[1] = <<"out", "/", "aegong_report_",
                       "a", "1", "b", "2", "c", "3", "d", "4", ".wav">>


\* the credentials the selected provider cannot work without
MandatoryCredentials(p) ==
  CASE p = OPENAI -> {"openai"}
    [] p = GOOGLE -> {"google"}
    [] p = AZURE -> {"azure"}
    [] p = CARTESIA -> {"cartesia"}
    [] p = LIVEKIT -> {"livekit_key", "livekit_secret"}

\* C23: when main is invoked without a mandatory credential of the selected
\* provider, the run ends with a configuration error, and it does so before
\* an HTTP session is created, a backend or an LLM client constructed, or a
\* synthesis or enhancement call made; nothing happens after the error.
C23_ConfigErrorBeforeAnything ==
  /\ [](\A a \in Agents :
         pc[a] = "config_error" =>
           /\ http_session[a] = NoSession /\ tts[a] = NoBackend
           /\ ~cerebras_llm[a] /\ log[a] = <<>> /\ chats[a] = <<>>
           /\ inflight[a] = {} /\ file[a] = <<>>
           /\ surfaced[a] # <<>> /\ surfaced[a][1].cause = "config")
  /\ [][\A a \in Agents :
          /\ pc[a] = "main"
               /\ ~(MandatoryCredentials(args.provider) \subseteq args.creds)
               /\ pc'[a] # "main"
               => pc'[a] = "config_error"
          /\ pc[a] = "config_error" => pc'[a] = "config_error"]_vars

\* LiveKit selected, the key given and the secret missing, enhancement off:
\* the run has ended with the configuration error
C23_Witness ==
  /\ pc[1] = "config_error"
  /\ args.provider = LIVEKIT /\ args.no_cerebras_enhancement
  /\ args.creds = Credentials \ {"livekit_secret"}

\* C24: an agent is never constructed with an option that is not one of the
\* recognized options of its provider.
C24_UnrecognizedOptionRejected ==
  \A a \in Agents :
    pc[a] = "new" => provider_kwargs[a] \subseteq RecognizedOptions(provider[a])

\* C26: a cancellation that arrives while a synthesis call is in flight ends
\* that call and is surfaced to the caller; the cancelled attempt is the last
\* of the request (no fallback is selected, no attempt started), no file is
\* written and the accessor is what it was when the attempt began.
C26_CancellationSurfaced ==
  /\ [](\A a \in Agents :
         /\ \A i \in 1..Len(log[a]) :
              log[a][i].outcome = "cancelled" =>
                i = Len(log[a]) /\ pc[a] = "cancelled"
         /\ pc[a] = "cancelled" =>
              /\ Last(a).outcome = "cancelled"
              /\ inflight[a] = {}
              /\ surfaced[a] # <<>> /\ surfaced[a][1].cause = "cancelled"
              /\ surfaced[a][1].attempt = Len(log[a])
              /\ Last(a).save = "not_called" /\ ~Last(a).wrote
              /\ file[a] = <<>>
              /\ http_context_session = Last(a).accEntry
              /\ http_context_session = LibraryAccessor)
  /\ [][\A a \in Agents :
          pc'[a] = "cancelled" =>
            /\ Len(log'[a]) = Len(log[a])
            /\ provider'[a] = provider[a] /\ tts'[a] = tts[a]
            /\ tried_providers'[a] = tried_providers[a]
            /\ retry_count'[a] = retry_count[a]
            /\ file'[a] = file[a]]_vars

\* a Cartesia call that had patched the accessor is cancelled in flight
C26_Witness ==
  /\ pc[1] = "cancelled"
  /\ Last(1).patched /\ Last(1).provider = CARTESIA /\ Len(log[1]) = 1

\* C27: every request of an agent starts with the provider and the
\* credential configured at construction: a request that follows another
\* starts with the provider the earlier one started with, whatever fallback
\* the earlier one took, and with the caller's API key.
C27_RequestsStartAsConfigured ==
  /\ [](\A a \in Agents :
         pc[a] = "loop" /\ log[a] = <<>> => api_key[a] = "cfg")
  /\ [][\A a \in Agents :
          pc[a] \in {"returned", "raised"} /\ pc'[a] = "loop" /\ log[a] # <<>>
            => tried_providers'[a] = {log[a][1].provider}]_vars

\* C30: within one request the enhancement call is made at most once and has
\* been answered before the first attempt starts; no step of the retry loop,
\* fallback included, makes or changes an enhancement call; and every attempt
\* of the request synthesizes the same text, the enhancement's result.
C30_EnhancedOnceBeforeAttempts ==
  /\ [](\A a \in Agents :
         /\ Len(chats[a]) <= 1
         /\ log[a] # <<>> =>
              /\ \A c \in 1..Len(chats[a]) : chats[a][c].response # Pending
              /\ \A i \in 1..Len(log[a]) : log[a][i].text = enhanced_message[a])
  /\ [][\A a \in Agents :
          pc[a] \in {"loop", "synth"} =>
            chats'[a] = chats[a] /\ enhanced_message'[a] = enhanced_message[a]]_vars

\* an enhanced request whose first two attempts failed: the third attempt
\* synthesizes the LLM's text, and one enhancement call was made
C30_Witness ==
  /\ Len(log[1]) = 3 /\ Len(chats[1]) = 1
  /\ chats[1][1].response.kind = "content"
  /\ log[1][3].text = chats[1][1].response.content
  /\ log[1][3].text # EnhanceReportWithDeeperAnalysis(
                         report[1], Get(report[1].aegong_message, <<>>))

\* the request of agent a is over: it returned a path or raised
Done(a) == pc[a] \in {"returned", "raised"}

\* every step that loops back for another attempt has incremented the retry
\* counter, and the counter never exceeds the budget plus one
CountsEveryLoop ==
  /\ [][\A a \in Agents :
          pc[a] = "synth" /\ pc'[a] = "loop"
            => retry_count'[a] = retry_count[a] + 1]_vars
  /\ [](\A a \in Agents : retry_count[a] <= max_retries + 1)

\* C28 as stated: every request terminates, assuming each synthesis call
\* finishes, raises or is cut by the deadline: from its first await on, a
\* request eventually returns a path or raises; and every step that loops
\* back for another attempt has incremented the retry counter.
C28_EveryRequestTerminates ==
  /\ \A a \in {1} : pc[a] \in {"enhance", "loop", "synth"} ~> Done(a)
  /\ CountsEveryLoop

\* C28, amended: a request that has entered the retry loop (its enhancement
\* call, if any, has answered) eventually returns a path or raises, assuming
\* each synthesis call finishes, raises or is cut by the deadline; and every
\* step that loops back for another attempt has incremented the retry counter.
C28_TerminatesOnceInLoop ==
  /\ \A a \in {1} : pc[a] \in {"loop", "synth"} ~> Done(a)
  /\ CountsEveryLoop

\* an enhanced Google request without an OpenAI key in the environment has
\* looped back twice through "continue" and raised after its third failure
C28_Witness ==
  /\ pc[1] = "raised" /\ retry_count[1] = max_retries + 1
  /\ chats[1] # <<>> /\ ~env_openai_key
  /\ Len(log[1]) = 3 /\ log[1][1].provider = GOOGLE
  /\ log[1][2].provider = OPENAI /\ log[1][2].backend = GOOGLE

\* the tried-set of a request that started with provider p, after k failures
\* each followed by a fallback choice
RECURSIVE TriedAfter(_, _)
TriedAfter(p, k) ==
  IF k = 0 THEN {p}
  ELSE LET t == TriedAfter(p, k - 1) IN t \cup {PickFallback(t)}

\* the provider the request of agent a started with
StartProvider(a) == IF log[a] = <<>> THEN provider[a] ELSE log[a][1].provider

\* C29 as stated: a request can reach Exhausted both ways: for an agent and
\* the provider its request starts with, after some number of failures within
\* the budget the fallback choice finds no untried provider, and after some
\* number of failures the budget is spent.  (The tried-set after k failures
\* is a function of the starting provider; the initial states cover every
\* starting provider.)
C29_BothExitsReachable ==
  /\ \E a \in Agents, k \in 0..max_retries :
       /\ BudgetLeft(k + 1)
       /\ PickFallback(TriedAfter(StartProvider(a), k)) = NoProvider
  /\ \E k \in 0..max_retries + 1 : ~BudgetLeft(k + 1)

\* C29, amended: a request reaches Exhausted only because the retry budget is
\* spent: whenever a fallback is chosen the tried-set holds at most three of
\* the five providers, so an untried provider remains and the "No more TTS
\* providers available to try" exit is never taken.
C29_ExhaustedOnlyByBudget ==
  \A a \in Agents :
    /\ pc[a] \in {"loop", "synth"} =>
         /\ tried_providers[a] = TriedAfter(StartProvider(a), retry_count[a])
         /\ Cardinality(tried_providers[a]) = retry_count[a] + 1
         /\ PickFallback(tried_providers[a]) # NoProvider
    /\ pc[a] = "raised" /\ log[a] # <<>> =>
         /\ surfaced[a][1].exit = "budget"
         /\ retry_count[a] = max_retries + 1
         /\ Cardinality(tried_providers[a]) = max_retries + 1

\* a Cartesia request fell back to OpenAI and then to Google, failed a third
\* time and raised with the budget spent and two providers untried
C29_Witness ==
  /\ pc[1] = "raised" /\ surfaced[1][1].exit = "budget"
  /\ tried_providers[1] = {CARTESIA, OPENAI, GOOGLE}
  /\ PickFallback(tried_providers[1]) = AZURE

\* C31: initialize() ends in one of two ways.  It completes with the backend
\* of the provider set and, whether or not the LLM client could be built,
\* with the enhancement switch on exactly when the LLM is set (a failed LLM
\* construction leaves the LLM unset and switches enhancement off); or the
\* backend could not be built and the error is raised to the caller with no
\* backend and no LLM set.  A request of an agent without LLM makes no
\* enhancement call and synthesizes the composed, unenhanced text.
C31_LlmFailureDegrades ==
  /\ [][\A a \in Agents :
          pc[a] = "new" /\ pc'[a] # "new" =>
            \/ /\ pc'[a] = "ready"
               /\ tts'[a] = provider[a] /\ surfaced'[a] = surfaced[a]
               /\ cerebras_llm'[a] <=> use_cerebras_enhancement'[a]
               /\ use_cerebras_enhancement'[a] => use_cerebras_enhancement[a]
            \/ /\ pc'[a] = "init_failed"
               /\ tts'[a] = NoBackend /\ ~cerebras_llm'[a]
               /\ surfaced'[a] # <<>> /\ surfaced'[a][1].op = "initialize"
               /\ surfaced'[a][1].cause \in {"plugin", "ctor"}]_vars
  /\ [](\A a \in Agents :
         ~cerebras_llm[a] =>
           /\ chats[a] = <<>>
           /\ \A i \in 1..Len(log[a]) :
                log[a][i].text =
                  EnhanceReportWithDeeperAnalysis(
                    report[a], Get(report[a].aegong_message, <<>>)))

\* main ran with enhancement requested, the LLM client could not be built,
\* and a request has returned after synthesizing the unenhanced text
C31_Witness ==
  /\ args # NoArgs /\ ~args.no_cerebras_enhancement
  /\ ~use_cerebras_enhancement[1] /\ ~cerebras_llm[1]
  /\ pc[1] = "returned" /\ tts[1] # NoBackend
  /\ log[1] # <<>> /\ chats[1] = <<>>

\* what generate_voice_report raised on agent a, if it raised at its start
RaisedAtStart(a) ==
  /\ surfaced[a] # <<>>
  /\ surfaced[a][1].op = "generate_voice_report"
  /\ surfaced[a][1].cause = "RuntimeError"

\* C32: a newly constructed agent has no backend and no LLM client and has
\* made no call; while the agent has no backend, a generate_voice_report call
\* raises at once: the report is not loaded, no enhancement or synthesis call
\* is made, no file is written, the request never enters the retry loop, and
\* the agent's attributes keep their values.
C32_GenerateBeforeInitializeFails ==
  /\ [](\A a \in Agents :
         pc[a] = "new" =>
           /\ tts[a] = NoBackend /\ ~cerebras_llm[a]
           /\ log[a] = <<>> /\ inflight[a] = {} /\ chats[a] = <<>>
           /\ file[a] = <<>> /\ closed_backends[a] = {})
  /\ [](\A a \in Agents :
         tts[a] = NoBackend =>
           /\ report[a] = NoReport /\ log[a] = <<>> /\ chats[a] = <<>>
           /\ file[a] = <<>> /\ inflight[a] = {}
           /\ pc[a] \notin {"enhance", "loop", "synth", "returned", "raised"})
  /\ [][\A a \in Agents :
          tts[a] = NoBackend /\ surfaced'[a] # surfaced[a] /\ pc'[a] = pc[a] =>
            /\ surfaced'[a][1].cause = "RuntimeError"
            /\ provider'[a] = provider[a] /\ api_key'[a] = api_key[a]
            /\ tts'[a] = tts[a] /\ http_session'[a] = http_session[a]
            /\ cerebras_llm'[a] = cerebras_llm[a]
            /\ use_cerebras_enhancement'[a] = use_cerebras_enhancement[a]
            /\ provider_kwargs'[a] = provider_kwargs[a]
            /\ http_context_session' = http_context_session]_vars

\* a request made right after construction has raised, and the agent is as
\* constructed
C32_Witness ==
  /\ pc[1] = "new" /\ RaisedAtStart(1)
  /\ tts[1] = NoBackend /\ report[1] = NoReport /\ log[1] = <<>>

\* C33: initialize() and close() of a Cartesia agent leave the global
\* HTTP-session accessor as they found it, whether they return or raise.
C33_AccessorAsBeforeTheCall ==
  /\ [][\A a \in Agents :
          /\ provider[a] = CARTESIA
          /\ pc[a] = "new" /\ pc'[a] \in {"ready", "init_failed"}
          => http_context_session' = http_context_session]_vars
  /\ [][\A a \in Agents :
          /\ provider[a] = CARTESIA
          /\ pc[a] = "closing" /\ pc'[a] \in {"closed", "close_failed"}
          => http_context_session' = original_http_session[a]]_vars

\* the backend instances agent a has built: the one of initialize(), which
\* served the first attempt of its request, and the one a fallback built,
\* which self.tts holds
CreatedBackends(a) ==
  ({tts[a]} \cup {log[a][i].backend : i \in 1..Len(log[a])}) \ {NoBackend}

\* C34: once close() has returned, every backend instance the agent built
\* has been closed and the HTTP session the agent created for itself is no
\* longer open.
C34_CloseReleasesEverything ==
  \A a \in Agents :
    pc[a] \in {"closed", "exited"} =>
      /\ CreatedBackends(a) \subseteq closed_backends[a]
      /\ http_session[a] # "tmp"

\* the number of start_instances calls of the current invocation
Starts ==
  Cardinality({i \in 1..Len(invocation.calls) :
                 invocation.calls[i] = "start_instances"})

\* the handler observed the instance and it was not running
ObservedNotRunning == invocation.current_state \notin {"unset", "running"}

\* the event is POST /start as sent, or by the defaults of event.get
IsStartRequest(event) ==
  event.httpMethod \in {"POST", "absent"} /\ event.path \in {"/start", "absent"}

\* start_instances is called at most once, and only for POST /start with
\* the instance observed not running, right after describe_instances;
\* 'already_running' is the answer to POST /start exactly when the instance
\* was observed running, and then start_instances is not called; OPTIONS,
\* GET /status and any other route never call start_instances
StartsOnlyWhenNotRunning ==
  LET event == invocation.event
  IN
  /\ Starts <= 1
  /\ Starts = 1 =>
       /\ event.httpMethod # "OPTIONS" /\ IsStartRequest(event)
       /\ invocation.env_ok /\ ObservedNotRunning
       /\ invocation.calls = <<"describe_instances", "start_instances">>
  /\ invocation.at = "responded" =>
       /\ invocation.response.body = "already_running" <=>
            IsStartRequest(event) /\ invocation.current_state = "running"
       /\ invocation.response.body = "already_running" => Starts = 0
       /\ invocation.response.body = "starting" => Starts = 1

\* C35 as stated: POST /start answers 'already_running' without a start
\* command when the instance is observed running; otherwise it calls
\* start_instances exactly once and answers 'starting'; OPTIONS, GET /status
\* and unknown routes never call start_instances.
C35_StartOnlyWhenNotRunning ==
  /\ StartsOnlyWhenNotRunning
  /\ /\ invocation.at = "responded"
     /\ invocation.event = [httpMethod |-> "POST", path |-> "/start"]
     /\ ObservedNotRunning
     => Starts = 1 /\ invocation.response.body = "starting"

\* C35, amended: as stated, except that when the instance is observed not
\* running the one start_instances call may raise, and the answer is then a
\* 500 error instead of 'starting'.
C35_StartOnceOrError ==
  /\ StartsOnlyWhenNotRunning
  /\ /\ invocation.at = "responded"
     /\ IsStartRequest(invocation.event)
     /\ ObservedNotRunning
     => /\ Starts = 1
        /\ \/ invocation.response = [statusCode |-> 200, body |-> "starting"]
           \/ /\ invocation.response.statusCode = 500
              /\ invocation.response.body \in {"ClientError", "Internal error"}

\* POST /start saw the instance stopped, sent the start command once and
\* answered 'starting'; the instance is pending
C35_Witness ==
  /\ invocation.at = "responded"
  /\ invocation.event = [httpMethod |-> "POST", path |-> "/start"]
  /\ invocation.current_state = "stopped"
  /\ invocation.calls = <<"describe_instances", "start_instances">>
  /\ invocation.response = [statusCode |-> 200, body |-> "starting"]
  /\ invocation.instance_state = "pending"
====
